---- MODULE Spec2Model ----
(***************************************************************************)
(* Controller composition, lifecycle hook ordering and the per-request     *)
(* pipeline of the router.                                                 *)
(*                                                                         *)
(* The repository holds several iterations of the same subsystem; each is  *)
(* modelled from its own file:                                             *)
(*   - the index-based controller  (src/controller.ts, with the pipeline   *)
(*     of src/unnamed/part_005 and part_004),                              *)
(*   - the use-list controller     (src/unnamed/part_001, prefix P1, with  *)
(*     the pipeline buildHandler of src/unnamed/part_006),                 *)
(*   - the first pipeline          (compileHandler of src/compose.ts).     *)
(*                                                                         *)
(* Specifications:                                                         *)
(*   Spec       registrations on three index-based controllers A, B, X     *)
(*   SpecLocal  registrations on the one index-based controller A          *)
(*   SpecP1     registrations on three use-list controllers                *)
(*   SpecReq    one request through one compiled route handler             *)
(*   SpecDI     parameter resolution for requests, one call at a time      *)
(*   SpecStream one generator handler streamed, with and without abort     *)
(*   SpecConc   two requests interleaved through one route handler         *)
(*   SpecTable  route tables of the index-based controller, duplicates     *)
(*   SpecP1Table  route tables of the use-list controller, duplicates      *)
(*   SpecLife     init() calls among registrations, index-based            *)
(*   SpecP1Life   init() calls among registrations, use-list               *)
(*   SpecConfig   response configuration along a mount chain A, B, X       *)
(*   SpecP1Config response configuration of the use-list controller        *)
(*   SpecConstruct construct() outside of a request                        *)
(*   SpecRegister registerInjectable() calls on an empty registry          *)
(*   SpecResponse newResponse() on every kind of data and init             *)
(*   SpecHeaders  assignHeaders() of part_000 and of part_008              *)
(*   SpecUses     use() of part_000 on configured controllers              *)
(*   SpecP1Uses   use() of the use-list controller, repeated               *)
(*   SpecCycle    construct() step by step, cyclic classes included        *)
(***************************************************************************)
EXTENDS Integers, Sequences, FiniteSets, TLC

\* ------------------------------------------------------------------------
\* Bounds of the model
\* ------------------------------------------------------------------------
MaxHooks == 3
MaxEach == 1
MaxRoutes == 1
MaxUses == 1
MaxChain == 2
MaxRequests == 2
MaxCalls == 3
MaxYields == 3
MaxTable == 3
MaxStack == 3    \* calls the engine's call stack holds (construct)

\* ------------------------------------------------------------------------
\* Values
\* ------------------------------------------------------------------------
Controllers == {"A", "B", "X"}

\* const RequestLifecycleHook = ['beforeHandle', 'afterHandle', 'mapResponse']
RequestLifecycleHook == {"beforeHandle", "afterHandle", "mapResponse"}

\* The value `this.#handlerIndex = NaN` of use(): every comparison with it is
\* false and NaN++ stays NaN.
NaN == -1

\* a status that is undefined (of ctx._set, of an Init): 0 stands for it
NoStatus == 0

\* interface Init { headers?, status?, statusText? }: a response configuration.
\* "" stands for a statusText or a header that is not there; the model knows
\* one header name.
NoInit == [status |-> NoStatus, statusText |-> "", header |-> ""]

IndexLess(a, b) == a # NaN /\ b # NaN /\ a < b
IndexGreater(a, b) == a # NaN /\ b # NaN /\ a > b
PostIncrement(i) == IF i = NaN THEN NaN ELSE i + 1

\* ------------------------------------------------------------------------
\* Paths.  A path string is the sequence of its tokens, "/" being a token:
\* "/a" is <<"/", "a">>, "a" is <<"a">>, "/" is <<"/">>.
\* ------------------------------------------------------------------------
RECURSIVE EscapeDollar(_)
\* s.replaceAll('$', '$$$$'): the replacement string "$$$$" stands for "$$".
EscapeDollar(s) ==
    IF s = <<>> THEN <<>>
    ELSE (IF Head(s) = "$" THEN <<"$", "$">> ELSE <<Head(s)>>) \o EscapeDollar(Tail(s))

RECURSIVE ExpandReplacement(_)
\* A replacement string as String.prototype.replace reads it: "$$" is one "$".
ExpandReplacement(s) ==
    IF s = <<>> THEN <<>>
    ELSE IF Len(s) >= 2 /\ s[1] = "$" /\ s[2] = "$"
         THEN <<"$">> \o ExpandReplacement(Tail(Tail(s)))
         ELSE <<Head(s)>> \o ExpandReplacement(Tail(s))

\* s.replaceAll(/^(?!\/)|(?<!\/)$/g, '/'): a slash in front unless there is one,
\* a slash at the end unless there is one.
SlashBothEnds(s) ==
    IF s = <<>> THEN <<"/">>
    ELSE (IF Head(s) = "/" THEN <<>> ELSE <<"/">>) \o s
         \o (IF s[Len(s)] = "/" THEN <<>> ELSE <<"/">>)

\* path.replace(/^\/?/, prefix): the leading slash, if any, becomes prefix.
ReplaceLeadingSlash(path, prefix) ==
    ExpandReplacement(prefix)
        \o (IF path # <<>> /\ Head(path) = "/" THEN Tail(path) ELSE path)

\* The prefix string of handlers() and mount(): slashes at both ends, "$" escaped.
PrefixOf(s) == EscapeDollar(SlashBothEnds(s))

\* ------------------------------------------------------------------------
\* State of the index-based controller (src/controller.ts)
\* ------------------------------------------------------------------------
VARIABLES
    opt,            \* opt[c]: [enabled, prefix, init]; enabled is "this.opt is
                    \* set", prefix and init are the fields of this.opt
    use,            \* use[c]: the #use list, a sequence of controllers
    handlerIndex,   \* handlerIndex[c]: #handlerIndex
    hookList,       \* hookList[c][name]: the #hooks map, a list per hook name
    routes,         \* routes[c]: the #routes map in insertion order
    err             \* the error thrown by the last call, "" when it returned

ctlVars == <<opt, use, handlerIndex, hookList, routes, err>>


\* A row of #routes: a path with either one handler (isMap = FALSE, the one
\* entry has method "") or a Map from method to handler, in insertion order.
HasPath(table, path) == \E i \in 1..Len(table) : table[i].path = path
RowOf(table, path) == CHOOSE i \in 1..Len(table) : table[i].path = path
HasMethod(row, method) == \E j \in 1..Len(row.entries) : row.entries[j].method = method

\* #methodRoute(path): the Map at path, created when the path is new; throws
\* when the path holds a single handler.
methodRoute(table, path) ==
    IF HasPath(table, path)
    THEN IF table[RowOf(table, path)].isMap
         THEN [err |-> "", table |-> table]
         ELSE [err |-> "Route already exists for this path", table |-> table]
    ELSE [err |-> "",
          table |-> Append(table, [path |-> path, isMap |-> TRUE, entries |-> <<>>])]

\* route.set(method, handler) on the Map at path.
SetMethod(table, path, method, handler) ==
    LET i == RowOf(table, path) IN
    [table EXCEPT ![i].entries = Append(@, [method |-> method, handler |-> handler])]

\* this.#routes.set(path, handler) for a path that is not in the table.
SetSingle(table, path, handler) ==
    Append(table, [path |-> path, isMap |-> FALSE,
                   entries |-> <<[method |-> "", handler |-> handler]>>])

\* *handlers(): the rows of c with the controller's prefix put in front.
handlers(c) ==
    LET prefix == PrefixOf(opt[c].prefix) IN
    [i \in 1..Len(routes[c]) |->
        [routes[c][i] EXCEPT !.path = ReplaceLeadingSlash(@, prefix)]]

\* ------------------------------------------------------------------------
\* mount(): the loop over router.handlers().  acc = [table, index, err] is the
\* receiver's #routes and #handlerIndex while the loop runs; a throw leaves
\* what the loop has already written.
\* ------------------------------------------------------------------------
\* a record of env that leaves out the configuration of the mount
EnvEntryUnconfigured(acc, self, propertyKey, init) ==
    [index |-> acc.index, controller |-> self, propertyKey |-> propertyKey,
     init |-> NoInit]

\* the record mount() appends to env
EnvEntry(acc, self, propertyKey, init) ==
    [index |-> acc.index, controller |-> self, propertyKey |-> propertyKey,
     init |-> init]

RECURSIVE MountMethods(_, _, _, _, _, _, _)
MountMethods(self, propertyKey, init, path, entries, j, acc) ==
    IF j > Len(entries) THEN acc
    ELSE IF HasMethod(acc.table[RowOf(acc.table, path)], entries[j].method)
         THEN [acc EXCEPT !.err = "Route already exists for this method"]
         ELSE MountMethods(self, propertyKey, init, path, entries, j + 1,
                [table |-> SetMethod(acc.table, path, entries[j].method,
                              [entries[j].handler EXCEPT
                                  !.env = Append(@, EnvEntry(acc, self, propertyKey, init))]),
                 index |-> PostIncrement(acc.index),
                 err |-> ""])

RECURSIVE MountRows(_, _, _, _, _, _, _)
MountRows(self, propertyKey, init, prefix, rows, i, acc) ==
    IF i > Len(rows) THEN acc
    ELSE
      LET path == ReplaceLeadingSlash(rows[i].path, prefix) IN
      IF rows[i].isMap
      THEN LET route == methodRoute(acc.table, path) IN
           IF route.err # "" THEN [acc EXCEPT !.err = route.err]
           ELSE LET done == MountMethods(self, propertyKey, init, path, rows[i].entries, 1,
                                         [acc EXCEPT !.table = route.table]) IN
                IF done.err # "" THEN done
                ELSE MountRows(self, propertyKey, init, prefix, rows, i + 1, done)
      ELSE IF HasPath(acc.table, path)
           THEN [acc EXCEPT !.err = "Route already exists for this path"]
           ELSE MountRows(self, propertyKey, init, prefix, rows, i + 1,
                  [table |-> SetSingle(acc.table, path,
                                [rows[i].entries[1].handler EXCEPT
                                    !.env = Append(@, EnvEntry(acc, self, propertyKey, init))]),
                   index |-> PostIncrement(acc.index),
                   err |-> ""])

\* mount(path, { propertyKey, router, init }) run from the given #handlerIndex:
\* the receiver's table, index and the error thrown, if any.
mount(self, path, propertyKey, router, init, index) ==
    LET slashed == ReplaceLeadingSlash(path, <<"/">>)
        start == [table |-> routes[self], index |-> index, err |-> ""]
    IN  IF ~opt[router].enabled
        THEN [start EXCEPT !.err = "Cannot mount a disabled controller"]
        ELSE MountRows(self, propertyKey, init, PrefixOf(slashed), handlers(router),
                       1, start)

\* ------------------------------------------------------------------------
\* Operations of the controller
\* ------------------------------------------------------------------------
\* an init() that takes the new options whether or not it was called before
ControllerInitAgain(c, o) ==
    /\ opt' = [opt EXCEPT ![c] =
                 [enabled |-> TRUE, prefix |-> o.prefix, init |-> o.init]]
    /\ err' = ""
    /\ UNCHANGED <<use, handlerIndex, hookList, routes>>

\* init(opt): o is the argument, [prefix, init]
ControllerInit(c, o) ==
    /\ IF opt[c].enabled
       THEN /\ err' = "Controller has been initialized"
            /\ UNCHANGED opt
       ELSE /\ opt' = [opt EXCEPT ![c] =
                        [enabled |-> TRUE, prefix |-> o.prefix, init |-> o.init]]
            /\ err' = ""
    /\ UNCHANGED <<use, handlerIndex, hookList, routes>>

\* hook({ hook: name, propertyKey, type })
Hook(c, name, propertyKey, type) ==
    /\ IF name \notin RequestLifecycleHook
       THEN /\ err' = "Invalid hook"
            /\ UNCHANGED <<hookList, handlerIndex>>
       ELSE /\ hookList' = [hookList EXCEPT ![c][name] = Append(@,
                   [index |-> handlerIndex[c], controller |-> c,
                    propertyKey |-> propertyKey, type |-> type])]
            /\ handlerIndex' = [handlerIndex EXCEPT ![c] = PostIncrement(@)]
            /\ err' = ""
    /\ UNCHANGED <<opt, use, routes>>

\* mount(path, { propertyKey, router, init })
Mount(c, path, propertyKey, router, init) ==
    LET res == mount(c, path, propertyKey, router, init, handlerIndex[c]) IN
    /\ routes' = [routes EXCEPT ![c] = res.table]
    /\ handlerIndex' = [handlerIndex EXCEPT ![c] = res.index]
    /\ err' = res.err
    /\ UNCHANGED <<opt, use, hookList>>

\* a use() that puts the router on the #use list before it looks at router.opt
UseUnchecked(c, router) ==
    LET res == mount(c, <<"/">>, "constructor", router, NoInit, NaN) IN
    /\ use' = [use EXCEPT ![c] = Append(@, router)]
    /\ routes' = [routes EXCEPT ![c] = res.table]
    /\ handlerIndex' = [handlerIndex EXCEPT ![c] = res.index]
    /\ err' = res.err
    /\ UNCHANGED <<opt, hookList>>

\* use(router)
Use(c, router) ==
    IF ~opt[router].enabled
    THEN /\ err' = "Cannot use a disabled controller"
         /\ UNCHANGED <<opt, use, handlerIndex, hookList, routes>>
    ELSE LET res == mount(c, <<"/">>, "constructor", router, NoInit, NaN) IN
         /\ use' = [use EXCEPT ![c] = Append(@, router)]
         /\ routes' = [routes EXCEPT ![c] = res.table]
         /\ handlerIndex' = [handlerIndex EXCEPT ![c] = res.index]
         /\ err' = res.err
         /\ UNCHANGED <<opt, hookList>>

\* route(path, { method, propertyKey, init, type }); propType is the design
\* type of the property (getType), "" when it is no controller.
Route(c, path, method, propertyKey, type, propType, init) ==
    LET slashed == ReplaceLeadingSlash(path, <<"/">>)
        handler == [index |-> handlerIndex[c], controller |-> c,
                    propertyKey |-> propertyKey, type |-> type, init |-> init,
                    env |-> <<>>]
    IN
    IF method = ""
    THEN IF HasPath(routes[c], slashed)
         THEN /\ err' = "Route already exists for this path"
              /\ UNCHANGED <<opt, use, handlerIndex, hookList, routes>>
         ELSE IF type = "Static" /\ propType \in Controllers
              THEN Mount(c, slashed, propertyKey, propType, init)
              ELSE /\ routes' = [routes EXCEPT ![c] = SetSingle(@, slashed, handler)]
                   /\ handlerIndex' = [handlerIndex EXCEPT ![c] = PostIncrement(@)]
                   /\ err' = ""
                   /\ UNCHANGED <<opt, use, hookList>>
    ELSE LET route == methodRoute(routes[c], slashed) IN
         IF route.err # ""
         THEN /\ err' = route.err
              /\ UNCHANGED <<opt, use, handlerIndex, hookList, routes>>
         ELSE IF HasMethod(route.table[RowOf(route.table, slashed)], method)
              THEN /\ err' = "Route already exists for this method"
                   /\ routes' = [routes EXCEPT ![c] = route.table]
                   /\ UNCHANGED <<opt, use, handlerIndex, hookList>>
              ELSE /\ routes' = [routes EXCEPT ![c] =
                                    SetMethod(route.table, slashed, method, handler)]
                   /\ handlerIndex' = [handlerIndex EXCEPT ![c] = PostIncrement(@)]
                   /\ err' = ""
                   /\ UNCHANGED <<opt, use, hookList>>
\* ------------------------------------------------------------------------
\* *hooks(name, { index, env }) of controller `self`: the effective chain of
\* a route (or of a mount record) for one hook kind.
\* ------------------------------------------------------------------------
RECURSIVE Flat(_)
Flat(seqs) == IF seqs = <<>> THEN <<>> ELSE Head(seqs) \o Flat(Tail(seqs))

RECURSIVE UseHooks(_, _, _)
\* for (const controller of this.#use) yield* controller.#hooks.get(name)
UseHooks(name, used, i) ==
    IF i > Len(used) THEN <<>>
    ELSE hookList[used[i]][name] \o UseHooks(name, used, i + 1)

\* a chain that takes every local hook, whatever its index
LocalBeforeUnfiltered(name, self, index) == hookList[self][name]

LocalBefore(name, self, index) ==
    SelectSeq(hookList[self][name], LAMBDA handler : IndexLess(handler.index, index))

LocalAfter(name, self, index) ==
    SelectSeq(hookList[self][name], LAMBDA handler : IndexGreater(handler.index, index))

\* an after-kind chain that takes the hooks of the used controllers last
hooksUsedLast(name, self, index, env) ==
    IF name = "beforeHandle"
    THEN Flat([i \in 1..Len(env) |->
                 UseHooks(name, use[env[Len(env) + 1 - i].controller], 1)
                 \o LocalBefore(name, env[Len(env) + 1 - i].controller,
                                env[Len(env) + 1 - i].index)])
         \o UseHooks(name, use[self], 1)
         \o LocalBefore(name, self, index)
    ELSE LocalAfter(name, self, index)
         \o Flat([i \in 1..Len(env) |->
                    LocalAfter(name, env[i].controller, env[i].index)
                    \o UseHooks(name, use[env[i].controller], 1)])
         \o UseHooks(name, use[self], 1)

\* a chain that puts the hooks of the route's own controller in front of the
\* hooks of its mount ancestors
hooksInnerFirst(name, self, index, env) ==
    IF name = "beforeHandle"
    THEN LocalBefore(name, self, index)
         \o UseHooks(name, use[self], 1)
         \o Flat([i \in 1..Len(env) |->
                    LocalBefore(name, env[i].controller, env[i].index)])
    ELSE LocalAfter(name, self, index)
         \o UseHooks(name, use[self], 1)
         \o Flat([i \in 1..Len(env) |->
                    LocalAfter(name, env[i].controller, env[i].index)])

RECURSIVE hooks(_, _, _, _)
RECURSIVE EnvHooksReversed(_, _, _)
RECURSIVE EnvHooks(_, _, _)
RECURSIVE EnvHooksUnfiltered(_, _, _)

\* for (const handler of env.toReversed()) yield* handler.controller.hooks(name, handler)
EnvHooksReversed(name, env, i) ==
    IF i < 1 THEN <<>>
    ELSE hooks(name, env[i].controller, env[i].index, <<>>)
         \o EnvHooksReversed(name, env, i - 1)

\* an after-kind chain that takes every hook of a mount ancestor, whatever
\* the index of the mount
EnvHooksUnfiltered(name, env, i) ==
    IF i > Len(env) THEN <<>>
    ELSE hookList[env[i].controller][name]
         \o UseHooks(name, use[env[i].controller], 1)
         \o EnvHooksUnfiltered(name, env, i + 1)

\* for (const handler of env) yield* handler.controller.hooks(name, handler)
EnvHooks(name, env, i) ==
    IF i > Len(env) THEN <<>>
    ELSE hooks(name, env[i].controller, env[i].index, <<>>)
         \o EnvHooks(name, env, i + 1)

hooks(name, self, index, env) ==
    IF name = "beforeHandle"
    THEN EnvHooksReversed(name, env, Len(env))
         \o UseHooks(name, use[self], 1)
         \o LocalBefore(name, self, index)
    ELSE LocalAfter(name, self, index)
         \o UseHooks(name, use[self], 1)
         \o EnvHooks(name, env, 1)

\* handler.controller.hooks(name, handler), as routes() asks for it
ChainOf(name, handler) == hooks(name, handler.controller, handler.index, handler.env)

\* ------------------------------------------------------------------------
\* Init(route) and Meta(handler): the response configuration compiled for a
\* handler
\* ------------------------------------------------------------------------
\* { ...a, ...b, headers: { ...a.headers, ...b.headers } }: what b defines
\* replaces what a defines
Spread(a, b) ==
    [status |-> IF b.status # NoStatus THEN b.status ELSE a.status,
     statusText |-> IF b.statusText # "" THEN b.statusText ELSE a.statusText,
     header |-> IF b.header # "" THEN b.header ELSE a.header]

\* function Init({ controller: { opt }, init }); throws when opt is not set
RouteInit(route) ==
    IF ~opt[route.controller].enabled
    THEN [err |-> "Cannot use a disabled controller", init |-> NoInit]
    ELSE [err |-> "", init |-> Spread(route.init, opt[route.controller].init)]

RECURSIVE MetaEnv(_, _, _)
\* for (const _init of handler.env.map(Init)) init = { ...init, ..._init }
MetaEnv(init, env, i) ==
    IF i > Len(env) THEN [err |-> "", init |-> init]
    ELSE IF RouteInit(env[i]).err # "" THEN RouteInit(env[i])
    ELSE MetaEnv(Spread(init, RouteInit(env[i]).init), env, i + 1)

\* function Meta(handler): the field init of what it returns
Meta(handler) ==
    IF RouteInit(handler).err # "" THEN RouteInit(handler)
    ELSE MetaEnv(RouteInit(handler).init, handler.env, 1)

\* use(router) of src/unnamed/part_000: the response configuration of the
\* router is merged into that of the receiver and into that of every
\* controller the receiver uses already, then the router is used as above
\*   this.#init = { ...this.#init, ...router.#init, headers: .. };
\*   for (const controller of this.#use) controller.#init = { ..., ...router.#init, .. };
\*   this.#use.push(router); this.#handlerIndex = NaN; this.mount('/', { router })
Use0(c, router) ==
    IF ~opt[router].enabled
    THEN /\ err' = "Cannot use a disabled controller"
         /\ UNCHANGED <<opt, use, handlerIndex, hookList, routes>>
    ELSE LET res == mount(c, <<"/">>, "undefined", router, NoInit, NaN) IN
         /\ opt' = [k \in Controllers |->
                      IF k = c \/ \E i \in 1..Len(use[c]) : use[c][i] = k
                      THEN [opt[k] EXCEPT !.init = Spread(@, opt[router].init)]
                      ELSE opt[k]]
         /\ use' = [use EXCEPT ![c] = Append(@, router)]
         /\ routes' = [routes EXCEPT ![c] = res.table]
         /\ handlerIndex' = [handlerIndex EXCEPT ![c] = res.index]
         /\ err' = res.err
         /\ UNCHANGED hookList

\* ------------------------------------------------------------------------
\* State of the use-list controller (src/unnamed/part_001)
\* ------------------------------------------------------------------------
VARIABLES
    p1_global,      \* p1_global[c]: [enabled, prefix, init]; enabled is
                    \* "this.global is set"
    p1_injectable,  \* the targets init() has passed to registerInjectable
    p1_hookList,    \* p1_hookList[c][name]: #hookList, a list per hook name
    p1_heap,        \* the Handler objects; tables hold their positions, since
                    \* use() puts one object into two tables and writes to it
    p1_routes,      \* p1_routes[c]: #routes in insertion order
    p1_used         \* history: p1_used[c] is the set of controllers that a
                    \* use() call of c has returned for

p1Vars == <<p1_global, p1_injectable, p1_hookList, p1_heap, p1_routes, p1_used>>

BeforHandleHook == {"request", "parse", "beforeHandle"}
AfterHandleHook == {"afterHandle", "mapResponse", "afterResponse"}
HookType == BeforHandleHook \cup AfterHandleHook

\* const $ALL = Symbol('ALL')
ALL == "$ALL"

Reverse(s) == [i \in 1..Len(s) |-> s[Len(s) + 1 - i]]

\* static *hooks(use, name)
P1Hooks(useList, name) ==
    LET order == IF name \notin AfterHandleHook THEN Reverse(useList) ELSE useList IN
    Flat([i \in 1..Len(order) |-> p1_hookList[order[i].controller][name]])

\* set(path, method = $ALL, value) on a table; value is a position of the heap
P1Set(table, path, method, value, type) ==
    IF type = "Static"
    THEN IF HasPath(table, path)
         THEN [err |-> "Route already exists for this method", table |-> table]
         ELSE [err |-> "",
               table |-> Append(table, [path |-> path, isMap |-> FALSE,
                                        entries |-> <<[method |-> "", handler |-> value]>>])]
    ELSE IF HasPath(table, path)
         THEN IF table[RowOf(table, path)].isMap
                 /\ ~HasMethod(table[RowOf(table, path)], method)
              THEN [err |-> "", table |-> SetMethod(table, path, method, value)]
              ELSE [err |-> "Route already exists for this method", table |-> table]
         ELSE [err |-> "",
               table |-> Append(table, [path |-> path, isMap |-> TRUE,
                                        entries |-> <<[method |-> method, handler |-> value]>>])]

\* *entries(): [path, method, handler] of every route, the prefix in front
P1Entries(c) ==
    LET prefix == PrefixOf(p1_global[c].prefix) IN
    Flat([i \in 1..Len(p1_routes[c]) |->
            [j \in 1..Len(p1_routes[c][i].entries) |->
                [path |-> ReplaceLeadingSlash(p1_routes[c][i].path, prefix),
                 method |-> p1_routes[c][i].entries[j].method,
                 handler |-> p1_routes[c][i].entries[j].handler]]])

\* *values(): the handlers of the table
P1Values(c) ==
    Flat([i \in 1..Len(p1_routes[c]) |->
            [j \in 1..Len(p1_routes[c][i].entries) |-> p1_routes[c][i].entries[j].handler]])

\* the method a table entry is passed to set() with: undefined (so $ALL) for
\* the entry of a Static row
P1MethodArg(method) == IF method = "" THEN ALL ELSE method

RECURSIVE P1UseEntries(_, _, _, _)
\* for (const [path, method, handler] of controller.entries()) this.set(..)
P1UseEntries(entries, i, table, heap) ==
    IF i > Len(entries) THEN [err |-> "", table |-> table]
    ELSE LET res == P1Set(table, entries[i].path, P1MethodArg(entries[i].method),
                          entries[i].handler, heap[entries[i].handler].type) IN
         IF res.err # "" THEN res
         ELSE P1UseEntries(entries, i + 1, res.table, heap)

RECURSIVE P1MountEntries(_, _, _, _, _, _, _)
\* for (..of controller.entries()) this.set(prefix + path, method, { ...handler, use })
P1MountEntries(self, init, prefix, entries, i, table, heap) ==
    IF i > Len(entries) THEN [err |-> "", table |-> table, heap |-> heap]
    ELSE LET old == heap[entries[i].handler]
             copy == [old EXCEPT !.use = Append(@, [controller |-> self, init |-> init])]
             res == P1Set(table, ReplaceLeadingSlash(entries[i].path, prefix),
                          P1MethodArg(entries[i].method), Len(heap) + 1, old.type)
         IN  IF res.err # "" THEN [err |-> res.err, table |-> table, heap |-> heap]
             ELSE P1MountEntries(self, init, prefix, entries, i + 1, res.table,
                                 Append(heap, copy))

\* init(opt): o is the argument, [prefix, init]
P1Init(c, o) ==
    /\ IF p1_global[c].enabled
       THEN /\ err' = "Controller has been initialized"
            /\ UNCHANGED <<p1_global, p1_injectable>>
       ELSE IF c \in p1_injectable
       THEN /\ err' = "Constructor is already registered as injectable"
            /\ UNCHANGED <<p1_global, p1_injectable>>
       ELSE /\ p1_injectable' = p1_injectable \cup {c}
            /\ p1_global' = [p1_global EXCEPT ![c] =
                   [enabled |-> TRUE, prefix |-> o.prefix, init |-> o.init]]
            /\ err' = ""
    /\ UNCHANGED <<p1_hookList, p1_heap, p1_routes, p1_used>>

\* hook({ hook: name, propertyKey })
P1Hook(c, name, propertyKey) ==
    /\ IF name \notin HookType
       THEN /\ err' = "Invalid hook"
            /\ UNCHANGED p1_hookList
       ELSE /\ p1_hookList' = [p1_hookList EXCEPT ![c][name] =
                   Append(@, [controller |-> c, propertyKey |-> propertyKey])]
            /\ err' = ""
    /\ UNCHANGED <<p1_global, p1_injectable, p1_heap, p1_routes, p1_used>>

\* route({ path, method, propertyKey, init, type })
P1Route(c, path, method, propertyKey, type, init) ==
    LET handler == [type |-> type, controller |-> c, propertyKey |-> propertyKey,
                    init |-> init, use |-> <<[controller |-> c, init |-> NoInit]>>]
        res == P1Set(p1_routes[c], ReplaceLeadingSlash(path, <<"/">>),
                     P1MethodArg(method), Len(p1_heap) + 1, type)
    IN  /\ err' = res.err
        /\ p1_routes' = [p1_routes EXCEPT ![c] = res.table]
        /\ p1_heap' = IF res.err = "" THEN Append(p1_heap, handler) ELSE p1_heap
        /\ UNCHANGED <<p1_global, p1_injectable, p1_hookList, p1_used>>

\* use({ router })
P1Use(c, router) ==
    IF ~p1_global[router].enabled
    THEN /\ err' = "Cannot use a disabled controller"
         /\ UNCHANGED p1Vars
    ELSE LET mine == {P1Values(c)[i] : i \in 1..Len(P1Values(c))}
             heap == [i \in 1..Len(p1_heap) |->
                        IF i \in mine
                        THEN [p1_heap[i] EXCEPT !.use =
                                  Append(@, [controller |-> router, init |-> NoInit])]
                        ELSE p1_heap[i]]
             res == P1UseEntries(P1Entries(router), 1, p1_routes[c], heap)
         IN  \* for (const [name, hook] of this.#hookList) hooks.push(...hook)
             /\ p1_hookList' = [p1_hookList EXCEPT ![c] =
                                   [name \in HookType |-> @[name] \o @[name]]]
             /\ p1_heap' = heap
             /\ p1_routes' = [p1_routes EXCEPT ![c] = res.table]
             /\ err' = res.err
             /\ p1_used' = IF res.err = ""
                           THEN [p1_used EXCEPT ![c] = @ \cup {router}]
                           ELSE p1_used
             /\ UNCHANGED <<p1_global, p1_injectable>>

\* mount({ path, propertyKey, init }); router is the design type of the property
P1Mount(c, path, propertyKey, router, init) ==
    IF ~p1_global[router].enabled
    THEN /\ err' = "Cannot use a disabled controller"
         /\ UNCHANGED p1Vars
    ELSE LET prefix == PrefixOf(ReplaceLeadingSlash(path, <<"/">>))
             res == P1MountEntries(c, init, prefix, P1Entries(router), 1,
                                   p1_routes[c], p1_heap)
         IN  /\ p1_routes' = [p1_routes EXCEPT ![c] = res.table]
             /\ p1_heap' = res.heap
             /\ err' = res.err
             /\ UNCHANGED <<p1_global, p1_injectable, p1_hookList, p1_used>>

\* ------------------------------------------------------------------------
\* buildHandler (src/unnamed/part_006): the response configuration of a
\* handler of the use-list controller
\* ------------------------------------------------------------------------
\* ...global?.init: nothing when the controller has no global
GlobalInit(c) == IF p1_global[c].enabled THEN p1_global[c].init ELSE NoInit

RECURSIVE ReduceRightSet(_, _, _)
\* use.reduceRight((previous, { controller: { global }, init }) =>
\*     ({ ...previous, ...global?.init, ...init, headers: .. }), {})
ReduceRightSet(previous, useList, i) ==
    IF i < 1 THEN previous
    ELSE ReduceRightSet(
            Spread(Spread(previous, GlobalInit(useList[i].controller)), useList[i].init),
            useList, i - 1)

\* ctx._set when the route handler is called: { status: 200, ...set } and
\* then { ...ctx._set, ...init }
HandlerSet(handler) ==
    Spread(Spread([status |-> 200, statusText |-> "", header |-> ""],
                  ReduceRightSet(NoInit, handler.use, Len(handler.use))),
           handler.init)

\* ------------------------------------------------------------------------
\* State of one request going through a compiled route handler:
\* compileHandler (src/compose.ts), routes (src/unnamed/part_004) and
\* buildHandler (src/unnamed/part_006)
\* ------------------------------------------------------------------------
VARIABLES
    build,      \* what the compiled handler closed over: which compiler made
                \* it, the length of each hook chain, bodyPresence
    pc,         \* [at, i]: the statement the request is at, and the position
                \* in the chain of the loop it is in
    ctx,        \* the Context fields the pipeline writes
    called,     \* history: the calls made for the request, in order
    result      \* how the async function ends: the pending completion while
                \* the finally block runs, the final one at "done"

reqVars == <<build, pc, ctx, called, result>>

Compilers == {"compileHandler", "routes", "buildHandler"}

\* the hook kinds each compiler builds chains for
KindsOf(compiler) ==
    IF compiler = "compileHandler" THEN {"beforeHandle", "afterHandle"}
    ELSE IF compiler = "routes" THEN RequestLifecycleHook
    ELSE HookType

\* values: undefined, null, or the defined value that a call returned
Undefined == [from |-> "undefined", i |-> 0]
Null == [from |-> "null", i |-> 0]
ValueOf(kind, i) == [from |-> kind, i |-> i]

OK == 200
NotFound == 404

\* newResponse(data, init) for data that is not itself a Response: the body
\* is made from the data, the status is init.status, 200 when it is undefined
newResponse(data, status) ==
    [body |-> data, status |-> IF status = NoStatus THEN OK ELSE status]

NoResponse == [body |-> Undefined, status |-> NoStatus]

Pending == [kind |-> "pending", response |-> NoResponse, error |-> ""]
Return(response) == [kind |-> "return", response |-> response, error |-> ""]
Throw(error) == [kind |-> "throw", response |-> NoResponse, error |-> error]

\* what a call of a hook or of the route handler does: it returns undefined,
\* returns a defined value, or throws
Outcomes == {"undefined", "value", "throw"}

Call(kind, i, out) == [kind |-> kind, i |-> i, out |-> out]

Goto(at, i) == [at |-> at, i |-> i]

ChainLen(kind) == build.len[kind]

\* ------------------------------------------------------------------------
\* State of request-time parameter resolution: construct (src/service.ts) and
\* mapParams (src/unnamed/part_004, src/unnamed/part_005)
\* ------------------------------------------------------------------------
VARIABLES
    di_version,   \* which mapParams the requests run: "part_004" or "part_005"
    di_single,    \* the WeakMap of construct: type -> instance (0: none)
    di_ctx,       \* di_ctx[r]: the fields of the Context of request r
    di_heap,      \* the objects made so far; an object is known by its place
    di_log,       \* history: every resolution of an injectable type
    di_calls      \* history: the number of mapParams calls made by requests

diVars == <<di_version, di_single, di_ctx, di_heap, di_log, di_calls>>

\* const injectableFunctionMap = new WeakMap(): the scope each constructor
\* was registered with, "undefined" for a constructor that is not in the map
VARIABLE injectableFunctionMap

\* the classes the program declares as injectable, and U, a class it does not
Types == {"S1", "S2", "S3", "S4", "S5", "R1", "R2", "I1"}
Constructors == Types \cup {"U"}

\* the map once every class decorator has run
Registered ==
    [type \in Constructors |->
        CASE type \in {"S1", "S2", "S3", "S4", "S5"} -> "SINGLETON"
          [] type \in {"R1", "R2"} -> "REQUEST"
          [] type = "I1" -> "INSTANCE"
          [] OTHER -> "undefined"]

\* injectableFunctionMap.get(constructor)
getScope(type) ==
    IF type \in Constructors THEN injectableFunctionMap[type] ELSE "undefined"

\* the design:paramtypes of each constructor, as ParamType() describes them:
\* a registered class stays itself, a request field such as the body is a
\* descriptor object, and so is the class U, which is not registered
getParamTypes(type) ==
    CASE type = "S2" -> <<"S1">>
      [] type = "S3" -> <<"S1", "body">>
      [] type = "S4" -> <<"U">>
      [] type = "S5" -> <<"R1">>
      [] type = "R1" -> <<"S2", "I1">>
      [] type = "R2" -> <<"body", "R1">>
      [] OTHER -> <<>>

\* typeof type === 'function': ParamType() keeps a constructor only when it is
\* registered as injectable; the other descriptors are objects
IsFunction(type) == type \in Types

\* the value of a parameter that is not an instance (a field of the request)
LeafValue == 0

NoInstance == 0

\* the state a resolution works on: the singleton map, the Context of the
\* request, the heap and the log
Alloc(st, r, type, args) ==
    [st EXCEPT !.heap = Append(@, [type |-> type, args |-> args, request |-> r])]

Resolved(st, r, type, id) ==
    [st EXCEPT !.log = Append(@, [request |-> r, type |-> type, id |-> id])]

Ok(st, args) == [st |-> st, args |-> args, err |-> ""]
Fail(st, error) == [st |-> st, args |-> <<>>, err |-> error]

RECURSIVE construct(_, _)
RECURSIVE ConstructArgs(_, _, _)
\* arguments that are made without the test of the parameter type: what is
\* not a class is passed as it is
ConstructArgsLenient(st, types, k) ==
    IF k > Len(types) THEN Ok(st, <<>>)
    ELSE LET first == IF IsFunction(types[k]) THEN construct(st, types[k])
                      ELSE Ok(st, <<LeafValue>>) IN
         IF first.err # "" THEN first
         ELSE LET rest == ConstructArgs(first.st, types, k + 1) IN
              IF rest.err # "" THEN rest
              ELSE Ok(rest.st, first.args \o rest.args)

\* getParamTypes(constructor).map((constructor) => { if (typeof constructor
\*     !== 'function') throw new TypeError(); return construct(constructor) })
ConstructArgs(st, types, k) ==
    IF k > Len(types) THEN Ok(st, <<>>)
    ELSE IF ~IsFunction(types[k]) THEN Fail(st, "TypeError")
    ELSE LET first == construct(st, types[k]) IN
         IF first.err # "" THEN first
         ELSE LET rest == ConstructArgs(first.st, types, k + 1) IN
              IF rest.err # "" THEN rest
              ELSE Ok(rest.st, first.args \o rest.args)

\* construct = bucket(new WeakMap(), (constructor) => ..): the cached
\* instance, or a new one made from constructed arguments and then cached
construct(st, type) ==
    IF st.single[type] # NoInstance THEN Ok(st, <<st.single[type]>>)
    ELSE IF getScope(type) # "SINGLETON" THEN Fail(st, "TypeError")
    ELSE LET args == ConstructArgs(st, getParamTypes(type), 1) IN
         IF args.err # "" THEN args
         ELSE LET made == Alloc(args.st, 0, type, args.args)
                  id == Len(made.heap)
              IN  Ok([made EXCEPT !.single[type] = id], <<id>>)

\* a REQUEST instance that is never kept in ctx._instances
CacheNothing(instances, type, id) == instances

\* (ctx._instances ??= new WeakMap()).set(type, value)
CacheInstance(instances, type, id) == [instances EXCEPT ![type] = id]

RECURSIVE mapParams4(_, _, _, _)
\* function* mapParams of part_004, as consumed by a spread: the arguments
\* it yields. The generator returns after the yield of an injectable type.
mapParams4(st, r, paramtypes, k) ==
    IF k > Len(paramtypes) THEN Ok(st, <<>>)
    ELSE LET type == paramtypes[k] IN
    IF IsFunction(type)
    THEN CASE getScope(type) = "SINGLETON" ->
                LET made == construct(st, type) IN
                IF made.err # "" THEN made
                ELSE Ok(Resolved(made.st, r, type, made.args[1]), made.args)
           [] getScope(type) = "REQUEST" ->
                IF st.instances[type] # NoInstance
                THEN Ok(Resolved(st, r, type, st.instances[type]), <<st.instances[type]>>)
                ELSE LET args == mapParams4(st, r, getParamTypes(type), 1) IN
                     IF args.err # "" THEN args
                     ELSE LET made == Alloc(args.st, r, type, args.args)
                              id == Len(made.heap)
                              kept == [made EXCEPT !.instances =
                                          CacheInstance(@, type, id)]
                          IN  Ok(Resolved(kept, r, type, id), <<id>>)
           [] getScope(type) = "INSTANCE" ->
                LET args == mapParams4(st, r, getParamTypes(type), 1) IN
                IF args.err # "" THEN args
                ELSE LET made == Alloc(args.st, r, type, args.args)
                         id == Len(made.heap)
                     IN  Ok(Resolved(made, r, type, id), <<id>>)
           [] OTHER -> Fail(st, "TypeError")
    ELSE LET rest == mapParams4(st, r, paramtypes, k + 1) IN
         IF rest.err # "" THEN rest
         ELSE Ok(rest.st, <<LeafValue>> \o rest.args)

RECURSIVE mapParams5(_, _, _, _)
\* async function mapParams of part_005: params, one per parameter type
mapParams5(st, r, paramtypes, k) ==
    IF k > Len(paramtypes) THEN Ok(st, <<>>)
    ELSE LET type == paramtypes[k]
             one ==
                IF ~IsFunction(type) THEN Ok(st, <<LeafValue>>)
                ELSE IF getScope(type) = "SINGLETON"
                THEN LET made == construct(st, type) IN
                     IF made.err # "" THEN made
                     ELSE Ok(Resolved(made.st, r, type, made.args[1]), made.args)
                ELSE IF getScope(type) = "REQUEST" /\ st.instances[type] # NoInstance
                THEN Ok(Resolved(st, r, type, st.instances[type]), <<st.instances[type]>>)
                ELSE LET args == mapParams5(st, r, getParamTypes(type), 1) IN
                     IF args.err # "" THEN args
                     ELSE LET made == Alloc(args.st, r, type, args.args)
                              id == Len(made.heap)
                              kept == IF getScope(type) = "REQUEST"
                                      THEN [made EXCEPT !.instances =
                                               CacheInstance(@, type, id)]
                                      ELSE made
                          IN  Ok(Resolved(kept, r, type, id), <<id>>)
         IN  IF one.err # "" THEN one
             ELSE LET rest == mapParams5(one.st, r, paramtypes, k + 1) IN
                  IF rest.err # "" THEN rest
                  ELSE Ok(rest.st, one.args \o rest.args)

mapParams(version, st, r, paramtypes) ==
    IF version = "part_004" THEN mapParams4(st, r, paramtypes, 1)
    ELSE mapParams5(st, r, paramtypes, 1)

\* a registerInjectable that does not look whether the constructor is
\* registered already: the later call replaces the scope
registerInjectableAgain(constructor, scope) ==
    IF constructor \notin Constructors
    THEN /\ err' = "TypeError"
         /\ UNCHANGED injectableFunctionMap
    ELSE /\ injectableFunctionMap' = [injectableFunctionMap EXCEPT ![constructor] = scope]
         /\ err' = ""

\* registerInjectable(constructor, scope)
registerInjectable(constructor, scope) ==
    IF constructor \notin Constructors
    THEN /\ err' = "TypeError"
         /\ UNCHANGED injectableFunctionMap
    ELSE IF injectableFunctionMap[constructor] # "undefined"
    THEN /\ err' = "Constructor is already registered as injectable"
         /\ UNCHANGED injectableFunctionMap
    ELSE /\ injectableFunctionMap' = [injectableFunctionMap EXCEPT ![constructor] = scope]
         /\ err' = ""

\* ------------------------------------------------------------------------
\* The streamed response of a generator handler
\* (onHandle of src/compose.ts and of src/unnamed/part_004, the handler
\* block of buildHandler of src/unnamed/part_006)
\* ------------------------------------------------------------------------
VARIABLES
    sm_version,   \* the file whose onHandle serves the request
    sm_gen,       \* the generator of the handler: its yields, its return value
    sm_pos,       \* the number of next() calls the generator has answered
    sm_returned,  \* return() was called on the generator: its cleanup ran
    sm_pc,        \* the place of onHandle / of start(controller)
    sm_chunk,     \* the result of the last next(): {value, done}
    sm_kind,      \* "none", "value" (done at the first pull) or "stream"
    sm_raw,       \* the response made of the return value, when not a stream
    sm_listening, \* the abort listener of start(controller) is registered
    sm_end,       \* let end = false
    sm_aborted,   \* the signal of the request has fired
    sm_body,      \* the chunks enqueued on the controller
    sm_closed,    \* controller.close() was called
    sm_events     \* history: pulls, enqueues, the abort, return, close

smVars == <<sm_version, sm_gen, sm_pos, sm_returned, sm_pc, sm_chunk, sm_kind,
            sm_raw, sm_listening, sm_end, sm_aborted, sm_body, sm_closed,
            sm_events>>

StreamVersions == {"compose.ts", "part_004", "part_006"}

\* what a generator yields or returns; "undefined" is the value undefined
Chunks == {"A", "B", "undefined"}
Returns == {"Z", "undefined"}

\* sequences over S of length at most n
SeqUpTo(S, n) == UNION {[1..k -> S] : k \in 0..n}

\* Generator.prototype.next(): the answer to the call number pos + 1
GenNext(gen, pos, returned) ==
    IF returned \/ pos > Len(gen.yields)
    THEN [value |-> "undefined", done |-> TRUE]
    ELSE IF pos = Len(gen.yields)
    THEN [value |-> gen.ret, done |-> TRUE]
    ELSE [value |-> gen.yields[pos + 1], done |-> FALSE]

\* the generator is suspended at a yield or not started: return() has work
Suspended == ~sm_returned /\ sm_pos <= Len(sm_gen.yields)

\* controller.enqueue(value), skipped for undefined
Enqueue(body, value) ==
    IF value = "undefined" THEN body ELSE Append(body, value)

Event(name, value) == [name |-> name, value |-> value]

\* ------------------------------------------------------------------------
\* Requests served concurrently by one compiled route handler: the fields
\* of each Context (routes of src/unnamed/part_004, buildHandler of
\* src/unnamed/part_006), with the instances of di_ctx
\* ------------------------------------------------------------------------
VARIABLES
    cc_pc,        \* cc_pc[r]: the place of the handler of request r
    cc_fields,    \* cc_fields[r]: ctx._set, ctx._body, ctx._store (0: undefined)
    cc_writes,    \* history: <<object, request>>, the request wrote to the object
    cc_response   \* cc_response[r]: the requests whose writes made the response

ccVars == <<cc_pc, cc_fields, cc_writes, cc_response>>

\* a ctx._set that is one object for every request: the first one made
SharedSet(heap, r) ==
    IF \E id \in 1..Len(heap) : heap[id].type = "responseInit" THEN heap
    ELSE Append(Append(heap, [type |-> "headers", args |-> <<>>, request |-> r]),
                [type |-> "responseInit", args |-> <<Len(heap) + 1>>, request |-> r])

\* ctx._set = { headers: {}, status: undefined, statusText: undefined }
\* (part_004), { status: 200, ...set, headers: { ...set.headers } }
\* (part_006): a new object with a new headers object, for request r
FreshSet(heap, r) ==
    Append(Append(heap, [type |-> "headers", args |-> <<>>, request |-> r]),
           [type |-> "responseInit", args |-> <<Len(heap) + 1>>, request |-> r])

\* the object a field was last given: the newest object of a type on the heap
LastOf(heap, type) ==
    CHOOSE id \in 1..Len(heap) :
        /\ heap[id].type = type
        /\ \A other \in (id + 1)..Len(heap) : heap[other].type # type

\* the parameter types mapParams gets to: the generator of part_004 returns
\* after the first injectable type
FirstFunction(paramtypes) ==
    IF \E k \in 1..Len(paramtypes) : IsFunction(paramtypes[k])
    THEN CHOOSE k \in 1..Len(paramtypes) :
             /\ IsFunction(paramtypes[k])
             /\ \A j \in 1..(k - 1) : ~IsFunction(paramtypes[j])
    ELSE Len(paramtypes) + 1

LeavesResolved(version, paramtypes) ==
    {paramtypes[k] : k \in {j \in 1..Len(paramtypes) :
        /\ ~IsFunction(paramtypes[j])
        /\ version = "part_004" => j < FirstFunction(paramtypes)}}

\* ------------------------------------------------------------------------
\* Response materialization: newResponse (src/util.ts) and the ctx._set that
\* buildHandler hands to it (src/unnamed/part_006)
\* ------------------------------------------------------------------------
VARIABLE made   \* the last call of newResponse or of assignHeaders: its
                \* arguments and its result

\* the header names the model tries; "" stands for a header that is not there
HeaderNames == {"content-type", "x-a"}
NoHeaders == [name \in HeaderNames |-> ""]

\* the init of a Response: { headers?, status?, statusText? }
ResponseInits ==
    [headers : [HeaderNames -> {"", "set"}], status : {NoStatus, 201},
     statusText : {"", "Created"}]

\* the body of a response: how it was encoded, and from what
Body(encoding, of) == [encoding |-> encoding, of |-> of]
NoBody == Body("none", "")

\* a Response object
RawResponses ==
    [type : {"Response"}, body : {NoBody, Body("text", "own")},
     headers : [HeaderNames -> {"", "own"}], status : {OK, NotFound},
     statusText : {"", "Not Found"}]

\* what a handler can leave in ctx._response: a string, a plain object, a
\* number, null, a Blob, or a Response
DataValues ==
    {[type |-> "string", value |-> "hello"], [type |-> "object", value |-> "{a}"],
     [type |-> "number", value |-> "1"], [type |-> "null", value |-> ""],
     [type |-> "Blob", value |-> "bytes"]} \cup RawResponses

\* new Headers(init): the headers given, and absent ones left absent
WithContentType(headers, contentType) ==
    [headers EXCEPT !["content-type"] = IF @ = "" THEN contentType ELSE @]

\* new Response(body, init): the status is 200 and the status text empty
\* unless init says otherwise; a string body brings its content type when
\* the headers have none
Response(body, contentType, init) ==
    [body |-> body,
     headers |-> WithContentType(init.headers, contentType),
     status |-> IF init.status = NoStatus THEN OK ELSE init.status,
     statusText |-> init.statusText]

\* newHeaders that keeps the headers of the Response where init sets the same
\* name
OwnHeadersFirst(own, headers) ==
    [name \in HeaderNames |-> IF own[name] # "" THEN own[name] ELSE headers[name]]

\* const newHeaders = new Headers(data.headers);
\* for (const name in init?.headers) newHeaders.set(name, init.headers[name])
MergeHeaders(own, headers) ==
    [name \in HeaderNames |-> IF headers[name] # "" THEN headers[name] ELSE own[name]]

\* newResponse(data, init) of src/util.ts, headers and status text included
NewResponse(data, init) ==
    CASE data.type = "string" ->
            Response(Body("text", data.value), "text/plain;charset=utf-8", init)
      [] data.type = "Response" ->
            [body |-> data.body,
             headers |-> MergeHeaders(data.headers, init.headers),
             status |-> IF init.status # NoStatus THEN init.status ELSE data.status,
             statusText |-> IF init.statusText # "" THEN init.statusText
                            ELSE data.statusText]
      [] data.type = "null" -> Response(NoBody, "", init)
      [] data.type = "Blob" -> Response(Body("bytes", data.value), "", init)
      [] OTHER ->
            Response(Body("json", data.value), "application/json;charset=utf-8", init)

\* ctx._set = { status: 200, ...set, headers: { ...set.headers } }
CtxSet(set) ==
    [headers |-> set.headers,
     status |-> IF set.status # NoStatus THEN set.status ELSE OK,
     statusText |-> set.statusText]

\* ------------------------------------------------------------------------
\* assignHeaders (src/unnamed/part_000 and src/unnamed/part_008).  A header
\* entry is a string or an array of strings; Absent stands for a name that
\* the object does not have.
\* ------------------------------------------------------------------------
Absent == [array |-> FALSE, values |-> <<>>]
Scalar(value) == [array |-> FALSE, values |-> <<value>>]
Array(values) == [array |-> TRUE, values |-> values]

\* the entries the model tries on the accumulated side and on the incoming
\* side of a merge
EntriesOf(v, w) == {Absent, Scalar(v), Array(<<>>), Array(<<v>>), Array(<<v, w>>)}
HeaderRecords(v, w) == [HeaderNames -> EntriesOf(v, w)]

\* headers[name]!, as an element of an array literal
Element(entry) == IF entry = Absent THEN "undefined" ELSE entry.values[1]

\* assignHeaders of src/unnamed/part_000: for (const name in init)
\*   if (Array.isArray(value)) headers[name] = Array.isArray(headers[name])
\*       ? [...headers[name], ...value] : [headers[name]!, ...value];
\*   else headers[name] = value
assignHeaders(headers, init) ==
    [name \in HeaderNames |->
        IF init[name] = Absent THEN headers[name]
        ELSE IF init[name].array
        THEN IF headers[name].array
             THEN Array(headers[name].values \o init[name].values)
             ELSE Array(<<Element(headers[name])>> \o init[name].values)
        ELSE init[name]]

\* new Headers(record): each name with the list of its values
NewHeaders(record) == [name \in HeaderNames |-> record[name].values]

RECURSIVE AppendEach(_, _, _)
\* for (const e of value) headers.append(name, e)
AppendEach(list, value, i) ==
    IF i > Len(value) THEN list ELSE AppendEach(Append(list, value[i]), value, i + 1)

\* assignHeaders of src/unnamed/part_008, on a Headers object:
\*   if (Array.isArray(value)) for (const e of value) headers.append(name, e);
\*   else headers.set(name, value)
assignHeaders8(headers, init) ==
    [name \in HeaderNames |->
        IF init[name] = Absent THEN headers[name]
        ELSE IF init[name].array THEN AppendEach(headers[name], init[name].values, 1)
        ELSE <<init[name].values[1]>>]

NotMade == [by |-> "", data |-> Undefined, set |-> Undefined, init |-> Undefined,
            response |-> NoResponse]

\* newResponse was not called
IdleResponse == made = NotMade

\* ------------------------------------------------------------------------
\* construct (src/service.ts) call by call: the calls that are on the stack,
\* for classes whose constructor parameters may need one another
\* ------------------------------------------------------------------------
VARIABLE construction   \* paramtypes: the constructor parameters of each class
                        \* scope: what each class is registered as
                        \* map: the WeakMap of construct, class -> instance
                        \* stack: the calls of the callback that have not
                        \*        returned, [constructor, k, args] each
                        \* status, error: how the outermost call ended

Classes == {"A", "B"}

\* the parameter lists the model tries: classes and the descriptor "body"
ClassParams ==
    {<<>>} \cup {<<p>> : p \in Classes \cup {"body"}}
           \cup {<<p, q>> : p \in Classes, q \in Classes}

NoConstruction ==
    [paramtypes |-> <<>>, scope |-> <<>>, map |-> <<>>, stack |-> <<>>,
     status |-> "idle", error |-> ""]

\* construct is not being called
IdleConstruction == construction = NoConstruction

\* an exception leaves every call that is on the stack
Thrown(c, error) == [c EXCEPT !.stack = <<>>, !.status = "threw", !.error = error]

\* a call stack that, when it is full, gives up the deepest call and lets the
\* caller go on
OverflowDropsFrame(c) == [c EXCEPT !.stack = SubSeq(@, 1, Len(@) - 1)]

\* a call with the stack full: the engine raises a RangeError
Overflow(c) == Thrown(c, "RangeError")

\* construct(constructor) is called: bucket returns the cached instance, or
\* the callback starts, which throws unless the class is a SINGLETON
Enter(c, constructor, deliver) ==
    IF c.map[constructor] # NoInstance THEN deliver
    ELSE IF c.scope[constructor] # "SINGLETON" THEN Thrown(c, "TypeError")
    ELSE IF Len(c.stack) >= MaxStack THEN Overflow(c)
    ELSE [c EXCEPT !.stack = Append(@, [constructor |-> constructor, k |-> 1])]

\* the value of a call goes to the caller: the next parameter of the call
\* below, or the result of the outermost call
Delivered(c) ==
    IF c.stack = <<>> THEN [c EXCEPT !.status = "returned"]
    ELSE [c EXCEPT !.stack[Len(c.stack)].k = @ + 1]

\* one step of the call on top of the stack: the next parameter is looked at
\* (getParamTypes(constructor).map(..)), or, the parameters done, the
\* instance is made (Reflect.construct) and bucket puts it into the map
ConstructStep(c) ==
    LET top == c.stack[Len(c.stack)]
        types == c.paramtypes[top.constructor]
    IN  IF top.k <= Len(types)
        THEN IF types[top.k] \notin Classes THEN Thrown(c, "TypeError")
             ELSE Enter(c, types[top.k], Delivered(c))
        ELSE Delivered([c EXCEPT !.map[top.constructor] = 1,
                                 !.stack = SubSeq(@, 1, Len(@) - 1)])

vars == <<opt, use, handlerIndex, hookList, routes, err,
          p1_global, p1_injectable, p1_hookList, p1_heap, p1_routes, p1_used,
          build, pc, ctx, called, result,
          di_version, di_single, di_ctx, di_heap, di_log, di_calls,
          injectableFunctionMap, made, construction,
          sm_version, sm_gen, sm_pos, sm_returned, sm_pc, sm_chunk, sm_kind,
          sm_raw, sm_listening, sm_end, sm_aborted, sm_body, sm_closed,
          sm_events, cc_pc, cc_fields, cc_writes, cc_response>>

\* what the operations of one controller class leave alone: the other class
notCtl == <<p1Vars, reqVars, diVars, smVars, ccVars, injectableFunctionMap, made, construction>>
notP1 == <<opt, use, handlerIndex, hookList, routes, reqVars, diVars, smVars,
           ccVars, injectableFunctionMap, made, construction>>
notReq == <<ctlVars, p1Vars, diVars, smVars, ccVars, injectableFunctionMap, made, construction>>
notDI == <<ctlVars, p1Vars, reqVars, smVars, injectableFunctionMap, made, construction>>
notSm == <<ctlVars, p1Vars, reqVars, diVars, ccVars, injectableFunctionMap, made, construction>>
notMade == <<ctlVars, p1Vars, reqVars, diVars, smVars, ccVars, injectableFunctionMap,
             construction>>
notConstruction == <<ctlVars, p1Vars, reqVars, diVars, smVars, ccVars,
                     injectableFunctionMap, made>>

\* ------------------------------------------------------------------------
\* The registrations the model tries
\* ------------------------------------------------------------------------
Members == <<"m1", "m2", "m3", "m4", "m5", "m6", "m7", "m8">>

HookCount(c) ==
    Len(hookList[c]["beforeHandle"]) + Len(hookList[c]["afterHandle"])
        + Len(hookList[c]["mapResponse"])

RECURSIVE OwnRoutes(_, _, _)
\* the number of handlers of table[i..] that `c` declared itself
OwnRoutes(c, table, i) ==
    IF i > Len(table) THEN 0
    ELSE Cardinality({j \in 1..Len(table[i].entries) :
                         /\ table[i].entries[j].handler.controller = c
                         /\ table[i].entries[j].handler.env = <<>>})
         + OwnRoutes(c, table, i + 1)

\* the next member of the class of c that carries a decorator
NextMember(c) == Members[HookCount(c) + OwnRoutes(c, routes[c], 1) + 1]

RouteInputs == {[path |-> <<"/", "a">>, method |-> ""],
                [path |-> <<"b">>, method |-> "GET"]}

\* Composition is tried downwards only: A may mount or use B and X, B may
\* mount or use X (a controller mounted into itself never ends its loop).
Below(c) == IF c = "A" THEN {"B", "X"} ELSE IF c = "B" THEN {"X"} ELSE {}
MountPaths == {<<"x">>}
Prefixes == {<<"p">>}

RECURSIVE TableSize(_, _)
TableSize(table, i) ==
    IF i > Len(table) THEN 0 ELSE Len(table[i].entries) + TableSize(table, i + 1)

RECURSIVE SumOver(_, _)
SumOver(f, S) ==
    IF S = {} THEN 0
    ELSE LET c == CHOOSE x \in S : TRUE IN f[c] + SumOver(f, S \ {c})

TotalRoutes == SumOver([c \in Controllers |-> OwnRoutes(c, routes[c], 1)], Controllers)
TotalUses == SumOver([c \in Controllers |-> Len(use[c])], Controllers)

InitCtl ==
    /\ opt = [c \in Controllers |->
                 [enabled |-> FALSE, prefix |-> <<>>, init |-> NoInit]]
    /\ use = [c \in Controllers |-> <<>>]
    /\ handlerIndex = [c \in Controllers |-> 0]
    /\ hookList = [c \in Controllers |-> [name \in RequestLifecycleHook |-> <<>>]]
    /\ routes = [c \in Controllers |-> <<>>]
    /\ err = ""

InitP1 ==
    /\ p1_global = [c \in Controllers |->
                       [enabled |-> FALSE, prefix |-> <<>>, init |-> NoInit]]
    /\ p1_injectable = {}
    /\ p1_hookList = [c \in Controllers |-> [name \in HookType |-> <<>>]]
    /\ p1_heap = <<>>
    /\ p1_routes = [c \in Controllers |-> <<>>]
    /\ p1_used = [c \in Controllers |-> {}]

\* no request yet
NoCtx == [raw |-> Undefined, response |-> NoResponse, status |-> NoStatus,
          fulfilled |-> FALSE, body |-> Undefined]

\* checkBodyPresence(paramtypes, checked): the types of the list one after the
\* other; a function is looked into once, through getParamTypes
RECURSIVE BodyPresence(_, _, _)
BodyPresence(paramtypes, k, checked) ==
    IF k > Len(paramtypes) THEN [found |-> FALSE, checked |-> checked]
    ELSE LET type == paramtypes[k]
         IN  IF IsFunction(type)
             THEN IF type \in checked
                  THEN BodyPresence(paramtypes, k + 1, checked)
                  ELSE LET inner == BodyPresence(getParamTypes(type), 1,
                                                 checked \cup {type})
                       IN  IF inner.found THEN inner
                           ELSE BodyPresence(paramtypes, k + 1, inner.checked)
             ELSE IF type = "body"
             THEN [found |-> TRUE, checked |-> checked]
             ELSE BodyPresence(paramtypes, k + 1, checked)

checkBodyPresence(paramtypes) == BodyPresence(paramtypes, 1, {}).found

\* the parameter types of the handler and of the hooks of a route, as
\* buildHandler hands them to checkBodyPresence
BuildParams == {<<>>, <<"body">>, <<"S2", "R2">>, <<"store", "R1">>}

\* the compiled handlers the model tries: each compiler, every length of each
\* of its chains up to MaxChain, with and without a body parameter
Builds ==
    {b \in [compiler : Compilers, len : [HookType -> 0..MaxChain],
            paramtypes : BuildParams, bodyPresence : BOOLEAN] :
        /\ \A kind \in HookType \ KindsOf(b.compiler) : b.len[kind] = 0
        /\ b.compiler = "compileHandler" => ~b.bodyPresence
        /\ b.compiler = "buildHandler" =>
               b.bodyPresence = checkBodyPresence(b.paramtypes)
        /\ b.compiler # "buildHandler" => b.paramtypes = <<>>}

\* no handler is compiled and no request is made
IdleReq ==
    /\ build = [compiler |-> "buildHandler", len |-> [kind \in HookType |-> 0],
                paramtypes |-> <<>>, bodyPresence |-> FALSE]
    /\ pc = Goto("idle", 0)
    /\ ctx = NoCtx
    /\ called = <<>>
    /\ result = Pending

Requests == 1..MaxRequests

\* a Context before anything is resolved for it: ctx._instances is undefined
NewContext == [instances |-> [type \in Types |-> NoInstance]]

\* nothing constructed, no parameter resolved
EmptyDI ==
    /\ injectableFunctionMap = Registered
    /\ di_single = [type \in Constructors |-> NoInstance]
    /\ di_ctx = [r \in Requests |-> NewContext]
    /\ di_heap = <<>>
    /\ di_log = <<>>
    /\ di_calls = 0

NoFields == [set |-> NoInstance, body |-> NoInstance, store |-> NoInstance]

\* no request is being served
IdleConc ==
    /\ cc_pc = [r \in Requests |-> "idle"]
    /\ cc_fields = [r \in Requests |-> NoFields]
    /\ cc_writes = {}
    /\ cc_response = [r \in Requests |-> {}]

IdleDI ==
    /\ di_version = "part_004"
    /\ EmptyDI
    /\ IdleConc

\* the handler has not been called: nothing pulled, no stream made
NoStream ==
    /\ sm_pos = 0
    /\ sm_returned = FALSE
    /\ sm_pc = "first"
    /\ sm_chunk = [value |-> "undefined", done |-> FALSE]
    /\ sm_kind = "none"
    /\ sm_raw = "undefined"
    /\ sm_listening = FALSE
    /\ sm_end = FALSE
    /\ sm_aborted = FALSE
    /\ sm_body = <<>>
    /\ sm_closed = FALSE
    /\ sm_events = <<>>

IdleStream ==
    /\ sm_version = "part_006"
    /\ sm_gen = [yields |-> <<>>, ret |-> "undefined"]
    /\ NoStream

\* registration only
Init ==
    /\ InitCtl
    /\ IdleResponse
    /\ IdleConstruction
    /\ InitP1
    /\ IdleReq
    /\ IdleDI
    /\ IdleStream

DoInit ==
    \E c \in Controllers, prefix \in Prefixes :
        ControllerInit(c, [prefix |-> prefix, init |-> NoInit]) /\ UNCHANGED notCtl

\* Composition of three controllers: at most MaxEach hooks on each of them.
DoHook ==
    \E c \in Controllers, name \in RequestLifecycleHook :
        /\ HookCount(c) < MaxEach
        /\ Hook(c, name, NextMember(c), "Function")
        /\ UNCHANGED notCtl

DoRoute ==
    \E c \in Controllers, in \in RouteInputs :
        /\ TotalRoutes < MaxRoutes
        /\ Route(c, in.path, in.method, NextMember(c), "Function", "", NoInit)
        /\ UNCHANGED notCtl

DoMount ==
    \E c \in Controllers : \E router \in Below(c), path \in MountPaths :
        /\ TableSize(routes[c], 1) + TableSize(routes[router], 1) <= MaxRoutes
        /\ Mount(c, path, "sub", router, NoInit)
        /\ UNCHANGED notCtl

DoUse ==
    \E c \in Controllers : \E router \in Below(c) :
        /\ TotalUses < MaxUses
        /\ TableSize(routes[c], 1) + TableSize(routes[router], 1) <= MaxRoutes
        /\ Use(c, router)
        /\ UNCHANGED notCtl

Next == DoInit \/ DoHook \/ DoRoute \/ DoMount \/ DoUse

Spec == Init /\ [][Next]_vars

\* One controller on its own: every registration is made on A, up to MaxHooks
\* hooks; B and X stay empty.
LocalHook ==
    \E name \in RequestLifecycleHook :
        /\ HookCount("A") < MaxHooks
        /\ Hook("A", name, NextMember("A"), "Function")
        /\ UNCHANGED notCtl

LocalRoute ==
    \E in \in RouteInputs :
        /\ OwnRoutes("A", routes["A"], 1) < MaxRoutes
        /\ Route("A", in.path, in.method, NextMember("A"), "Function", "", NoInit)
        /\ UNCHANGED notCtl

LocalMount ==
    \E path \in MountPaths : Mount("A", path, "sub", "B", NoInit) /\ UNCHANGED notCtl

LocalUse == Len(use["A"]) < MaxUses /\ Use("A", "X") /\ UNCHANGED notCtl

NextLocal == DoInit \/ LocalHook \/ LocalRoute \/ LocalMount \/ LocalUse

SpecLocal == Init /\ [][NextLocal]_vars

\* ------------------------------------------------------------------------
\* buildHandler (src/unnamed/part_006): the request pipeline
\*   try { RES: { request; parse; beforeHandle; handler; afterHandle }
\*         mapResponse; return response = newResponse(..) }
\*   finally { afterResponse on the next tick }
\* ------------------------------------------------------------------------
At(compiler, at) == build.compiler = compiler /\ pc.at = at

\* the statement after the before-request loop
AfterRequest == IF build.bodyPresence THEN Goto("parse", 1) ELSE Goto("beforeHandle", 1)

\* an exception inside the try block: the finally block runs with it pending
Raise(error) ==
    /\ result' = Throw(error)
    /\ pc' = Goto("finally", 0)

\* ctx._server = server; ctx._set = { status: 200, ...set, headers }
V6_Start ==
    /\ At("buildHandler", "start")
    /\ ctx' = [NoCtx EXCEPT !.status = OK]
    /\ pc' = Goto("request", 1)
    /\ UNCHANGED <<build, called, result>>
    /\ UNCHANGED notReq

\* a before-request loop that goes on to its next hook after a defined value
RequestNoBreak == Goto("request", pc.i + 1)

\* the place the loop over hooks.request goes to when a hook returns a
\* defined value: break RES, to the map-response loop
RequestBreak == Goto("mapResponse", 1)

\* for (const meta of hooks.request) if (await onHook(ctx, meta)) break RES
V6_Request ==
    /\ At("buildHandler", "request")
    /\ IF pc.i > ChainLen("request")
       THEN /\ pc' = AfterRequest
            /\ UNCHANGED <<ctx, called, result>>
       ELSE \E out \in Outcomes :
            /\ called' = Append(called, Call("request", pc.i, out))
            /\ CASE out = "undefined" ->
                      /\ pc' = Goto("request", pc.i + 1)
                      /\ UNCHANGED <<ctx, result>>
                 [] out = "value" ->
                      /\ ctx' = [ctx EXCEPT !.raw = ValueOf("request", pc.i)]
                      /\ pc' = RequestBreak
                      /\ UNCHANGED result
                 [] out = "throw" ->
                      /\ Raise("request")
                      /\ UNCHANGED ctx
    /\ UNCHANGED build
    /\ UNCHANGED notReq

\* a parse loop that goes on to its next hook after a defined value
ParseNoBreak == Goto("parse", pc.i + 1)

\* a parse loop that starts the request over, from the before-request hooks,
\* after a defined value
ParseBreakToRequest == Goto("request", 1)

\* the place the loop over hooks.parse goes to when a hook returns a defined
\* value: break PARSE, past the call of parseBody
ParseBreak == Goto("beforeHandle", 1)

\* if (bodyPresence) PARSE: { for (.. of hooks.parse) { ctx._body = value;
\*     if (defined) break PARSE } ctx._body = await parseBody(ctx) }
V6_Parse ==
    /\ At("buildHandler", "parse")
    /\ IF pc.i > ChainLen("parse")
       THEN /\ pc' = Goto("parseBody", 0)
            /\ UNCHANGED <<ctx, called, result>>
       ELSE \E out \in Outcomes :
            /\ called' = Append(called, Call("parse", pc.i, out))
            /\ CASE out = "undefined" ->
                      /\ pc' = Goto("parse", pc.i + 1)
                      /\ UNCHANGED <<ctx, result>>
                 [] out = "value" ->
                      /\ ctx' = [ctx EXCEPT !.body = ValueOf("parse", pc.i)]
                      /\ pc' = ParseBreak
                      /\ UNCHANGED result
                 [] out = "throw" ->
                      /\ Raise("parse")
                      /\ UNCHANGED ctx
    /\ UNCHANGED build
    /\ UNCHANGED notReq

\* ctx._body = await parseBody(ctx): the body is parsed, or parsing throws
V6_ParseBody ==
    /\ At("buildHandler", "parseBody")
    /\ \E out \in {"value", "throw"} :
          /\ called' = Append(called, Call("parseBody", 0, out))
          /\ IF out = "value"
             THEN /\ ctx' = [ctx EXCEPT !.body = ValueOf("parseBody", 0)]
                  /\ pc' = Goto("beforeHandle", 1)
                  /\ UNCHANGED result
             ELSE /\ Raise("parseBody")
                  /\ UNCHANGED ctx
    /\ UNCHANGED build
    /\ UNCHANGED notReq

\* a before-handle loop that goes on to its next hook after a defined value
BeforeHandleNoBreak == Goto("beforeHandle", pc.i + 1)

\* the place the before-handle loop goes to when a hook returns a defined
\* value: break RES
BeforeHandleBreak == Goto("mapResponse", 1)

\* for (const meta of hooks.beforeHandle) if (await onHook(ctx, meta)) break RES
V6_BeforeHandle ==
    /\ At("buildHandler", "beforeHandle")
    /\ IF pc.i > ChainLen("beforeHandle")
       THEN /\ pc' = Goto("handler", 0)
            /\ UNCHANGED <<ctx, called, result>>
       ELSE \E out \in Outcomes :
            /\ called' = Append(called, Call("beforeHandle", pc.i, out))
            /\ CASE out = "undefined" ->
                      /\ pc' = Goto("beforeHandle", pc.i + 1)
                      /\ UNCHANGED <<ctx, result>>
                 [] out = "value" ->
                      /\ ctx' = [ctx EXCEPT !.raw = ValueOf("beforeHandle", pc.i)]
                      /\ pc' = BeforeHandleBreak
                      /\ UNCHANGED result
                 [] out = "throw" ->
                      /\ Raise("beforeHandle")
                      /\ UNCHANGED ctx
    /\ UNCHANGED build
    /\ UNCHANGED notReq

\* const res = await instance[propertyKey](..); a Function handler:
\* if (typeof res === 'undefined') throw new Error(); else ctx._response = res
V6_Handler ==
    /\ At("buildHandler", "handler")
    /\ \E out \in Outcomes :
          /\ called' = Append(called, Call("handler", 0, out))
          /\ CASE out = "undefined" ->
                    /\ Raise("Error")
                    /\ UNCHANGED ctx
               [] out = "value" ->
                    /\ ctx' = [ctx EXCEPT !.raw = ValueOf("handler", 0)]
                    /\ pc' = Goto("afterHandle", 1)
                    /\ UNCHANGED result
               [] out = "throw" ->
                    /\ Raise("handler")
                    /\ UNCHANGED ctx
    /\ UNCHANGED build
    /\ UNCHANGED notReq

\* for (const meta of hooks.afterHandle) await onHook(ctx, meta)
V6_AfterHandle ==
    /\ At("buildHandler", "afterHandle")
    /\ IF pc.i > ChainLen("afterHandle")
       THEN /\ pc' = Goto("mapResponse", 1)
            /\ UNCHANGED <<ctx, called, result>>
       ELSE \E out \in Outcomes :
            /\ called' = Append(called, Call("afterHandle", pc.i, out))
            /\ CASE out = "undefined" ->
                      /\ pc' = Goto("afterHandle", pc.i + 1)
                      /\ UNCHANGED <<ctx, result>>
                 [] out = "value" ->
                      /\ ctx' = [ctx EXCEPT !.raw = ValueOf("afterHandle", pc.i)]
                      /\ pc' = Goto("afterHandle", pc.i + 1)
                      /\ UNCHANGED result
                 [] out = "throw" ->
                      /\ Raise("afterHandle")
                      /\ UNCHANGED ctx
    /\ UNCHANGED build
    /\ UNCHANGED notReq

\* for (const meta of hooks.mapResponse) if (await onHook(ctx, meta)) break
V6_MapResponse ==
    /\ At("buildHandler", "mapResponse")
    /\ IF pc.i > ChainLen("mapResponse")
       THEN /\ pc' = Goto("return", 0)
            /\ UNCHANGED <<ctx, called, result>>
       ELSE \E out \in Outcomes :
            /\ called' = Append(called, Call("mapResponse", pc.i, out))
            /\ CASE out = "undefined" ->
                      /\ pc' = Goto("mapResponse", pc.i + 1)
                      /\ UNCHANGED <<ctx, result>>
                 [] out = "value" ->
                      /\ ctx' = [ctx EXCEPT !.raw = ValueOf("mapResponse", pc.i)]
                      /\ pc' = Goto("return", 0)
                      /\ UNCHANGED result
                 [] out = "throw" ->
                      /\ Raise("mapResponse")
                      /\ UNCHANGED ctx
    /\ UNCHANGED build
    /\ UNCHANGED notReq

\* return response = newResponse(ctx._response, ctx._set)
V6_Return ==
    /\ At("buildHandler", "return")
    /\ ctx' = [ctx EXCEPT !.response = newResponse(ctx.raw, ctx.status)]
    /\ result' = Return(newResponse(ctx.raw, ctx.status))
    /\ pc' = Goto("finally", 0)
    /\ UNCHANGED <<build, called>>
    /\ UNCHANGED notReq

\* finally { if (hooks.afterResponse.length) { const { status, .. } = response!;
\*     ctx._response = undefined; ctx._set = { status, .. }; process.nextTick(..) } }
\* response is undefined when an exception is pending: reading its
\* properties throws a TypeError, which replaces the pending exception
V6_Finally ==
    /\ At("buildHandler", "finally")
    /\ IF ChainLen("afterResponse") = 0
       THEN /\ pc' = Goto("done", 0)
            /\ UNCHANGED <<ctx, result>>
       ELSE IF result.kind = "throw"
       THEN /\ result' = Throw("TypeError")
            /\ pc' = Goto("done", 0)
            /\ UNCHANGED ctx
       ELSE /\ ctx' = [ctx EXCEPT !.raw = Undefined, !.status = result.response.status]
            /\ pc' = Goto("afterResponse", 1)
            /\ UNCHANGED result
    /\ UNCHANGED <<build, called>>
    /\ UNCHANGED notReq

\* the callback given to process.nextTick: the after-response hooks, one
\* after the other; what they return is not used, and one that throws ends
\* the callback
V6_AfterResponse ==
    /\ At("buildHandler", "afterResponse")
    /\ IF pc.i > ChainLen("afterResponse")
       THEN /\ pc' = Goto("done", 0)
            /\ UNCHANGED called
       ELSE \E out \in Outcomes :
            /\ called' = Append(called, Call("afterResponse", pc.i, out))
            /\ pc' = IF out = "throw" THEN Goto("done", 0)
                     ELSE Goto("afterResponse", pc.i + 1)
    /\ UNCHANGED <<build, ctx, result>>
    /\ UNCHANGED notReq

\* ------------------------------------------------------------------------
\* routes (src/unnamed/part_004): the request pipeline
\*   parseBody; try { beforeHandle; handler, mapResponse; 404 }
\*   finally { if (fulfilled) afterHandle }
\* ------------------------------------------------------------------------
\* ctx._rawResponse has been set: ctx._response = newResponse(ctx._rawResponse,
\* ctx._set); ctx._rawResponse = undefined; fulfilled = true
Fulfil(c, raw) ==
    [c EXCEPT !.response = newResponse(raw, c.status), !.raw = Undefined,
              !.fulfilled = TRUE]

\* let fulfilled = false; ctx._set = { headers: {}, status: undefined, .. }
V4_Start ==
    /\ At("routes", "start")
    /\ ctx' = NoCtx
    /\ pc' = IF build.bodyPresence THEN Goto("parseBody", 0) ELSE Goto("beforeHandle", 1)
    /\ UNCHANGED <<build, called, result>>
    /\ UNCHANGED notReq

\* if (bodyPresence) ctx._body = await parseBody(ctx), before the try block
V4_ParseBody ==
    /\ At("routes", "parseBody")
    /\ \E out \in {"value", "throw"} :
          /\ called' = Append(called, Call("parseBody", 0, out))
          /\ IF out = "value"
             THEN /\ ctx' = [ctx EXCEPT !.body = ValueOf("parseBody", 0)]
                  /\ pc' = Goto("beforeHandle", 1)
                  /\ UNCHANGED result
             ELSE /\ result' = Throw("parseBody")
                  /\ pc' = Goto("done", 0)
                  /\ UNCHANGED ctx
    /\ UNCHANGED build
    /\ UNCHANGED notReq

\* for (const meta of beforeHandle) if (await onHandle(ctx, meta)) { ..;
\*     fulfilled = true; return ctx._response }
V4_BeforeHandle ==
    /\ At("routes", "beforeHandle")
    /\ IF pc.i > ChainLen("beforeHandle")
       THEN /\ pc' = Goto("handler", 0)
            /\ UNCHANGED <<ctx, called, result>>
       ELSE \E out \in Outcomes :
            /\ called' = Append(called, Call("beforeHandle", pc.i, out))
            /\ CASE out = "undefined" ->
                      /\ pc' = Goto("beforeHandle", pc.i + 1)
                      /\ UNCHANGED <<ctx, result>>
                 [] out = "value" ->
                      /\ ctx' = Fulfil(ctx, ValueOf("beforeHandle", pc.i))
                      /\ result' = Return(ctx'.response)
                      /\ pc' = Goto("finally", 0)
                 [] out = "throw" ->
                      /\ Raise("beforeHandle")
                      /\ UNCHANGED ctx
    /\ UNCHANGED build
    /\ UNCHANGED notReq

\* if (await onHandle(ctx, handle)) { .. } for a Function handler: onHandle
\* returns false when the handler returns undefined
V4_Handler ==
    /\ At("routes", "handler")
    /\ \E out \in Outcomes :
          /\ called' = Append(called, Call("handler", 0, out))
          /\ CASE out = "undefined" ->
                    /\ pc' = Goto("notFound", 0)
                    /\ UNCHANGED <<ctx, result>>
               [] out = "value" ->
                    /\ ctx' = [ctx EXCEPT !.raw = ValueOf("handler", 0)]
                    /\ pc' = Goto("mapResponse", 1)
                    /\ UNCHANGED result
               [] out = "throw" ->
                    /\ Raise("handler")
                    /\ UNCHANGED ctx
    /\ UNCHANGED build
    /\ UNCHANGED notReq

\* for (const meta of mapResponse) await onHandle(ctx, meta);
\* ctx._response = newResponse(..); fulfilled = true; return ctx._response
V4_MapResponse ==
    /\ At("routes", "mapResponse")
    /\ IF pc.i > ChainLen("mapResponse")
       THEN /\ ctx' = Fulfil(ctx, ctx.raw)
            /\ result' = Return(ctx'.response)
            /\ pc' = Goto("finally", 0)
            /\ UNCHANGED called
       ELSE \E out \in Outcomes :
            /\ called' = Append(called, Call("mapResponse", pc.i, out))
            /\ CASE out = "undefined" ->
                      /\ pc' = Goto("mapResponse", pc.i + 1)
                      /\ UNCHANGED <<ctx, result>>
                 [] out = "value" ->
                      /\ ctx' = [ctx EXCEPT !.raw = ValueOf("mapResponse", pc.i)]
                      /\ pc' = Goto("mapResponse", pc.i + 1)
                      /\ UNCHANGED result
                 [] out = "throw" ->
                      /\ Raise("mapResponse")
                      /\ UNCHANGED ctx
    /\ UNCHANGED build
    /\ UNCHANGED notReq

\* ctx._set.status = 404; ctx._response = newResponse(null, ctx._set);
\* fulfilled = true; return ctx._response
V4_NotFound ==
    /\ At("routes", "notFound")
    /\ ctx' = Fulfil([ctx EXCEPT !.status = NotFound], Null)
    /\ result' = Return(ctx'.response)
    /\ pc' = Goto("finally", 0)
    /\ UNCHANGED <<build, called>>
    /\ UNCHANGED notReq

\* finally { if (fulfilled) { ctx._set = { headers: {} }, fulfilled = false; .. } }
V4_Finally ==
    /\ At("routes", "finally")
    /\ IF ctx.fulfilled
       THEN /\ ctx' = [ctx EXCEPT !.status = NoStatus, !.fulfilled = FALSE]
            /\ pc' = Goto("afterHandle", 1)
       ELSE /\ pc' = Goto("done", 0)
            /\ UNCHANGED ctx
    /\ UNCHANGED <<build, called, result>>
    /\ UNCHANGED notReq

\* for (const meta of afterHandle) { if (!await onHandle(ctx, meta)) continue;
\*     ctx._response = newResponse(..); ctx._set = { headers: {} }; fulfilled = true }
\* if (fulfilled) return ctx._response
\* A return in the finally block replaces the completion of the try block, and
\* so does an exception of a hook.
V4_AfterHandle ==
    /\ At("routes", "afterHandle")
    /\ IF pc.i > ChainLen("afterHandle")
       THEN /\ result' = IF ctx.fulfilled THEN Return(ctx.response) ELSE result
            /\ pc' = Goto("done", 0)
            /\ UNCHANGED <<ctx, called>>
       ELSE \E out \in Outcomes :
            /\ called' = Append(called, Call("afterHandle", pc.i, out))
            /\ CASE out = "undefined" ->
                      /\ pc' = Goto("afterHandle", pc.i + 1)
                      /\ UNCHANGED <<ctx, result>>
                 [] out = "value" ->
                      /\ ctx' = [Fulfil(ctx, ValueOf("afterHandle", pc.i))
                                    EXCEPT !.status = NoStatus]
                      /\ pc' = Goto("afterHandle", pc.i + 1)
                      /\ UNCHANGED result
                 [] out = "throw" ->
                      /\ result' = Throw("afterHandle")
                      /\ pc' = Goto("done", 0)
                      /\ UNCHANGED ctx
    /\ UNCHANGED build
    /\ UNCHANGED notReq

\* ------------------------------------------------------------------------
\* compileHandler (src/compose.ts): the request pipeline
\*   try { beforeHandles; handler; 404 } finally { if (ctx._fulfilled) afterHandle }
\* onHandle sets ctx._response = newResponse(res, ctx._set) and
\* ctx._fulfilled = true when the call returns a defined value.
\* ------------------------------------------------------------------------
\* ctx._fulfilled = false; ctx._set = { headers: {}, status: undefined, .. }
V0_Start ==
    /\ At("compileHandler", "start")
    /\ ctx' = NoCtx
    /\ pc' = Goto("beforeHandle", 1)
    /\ UNCHANGED <<build, called, result>>
    /\ UNCHANGED notReq

\* if (beforeHandles) for (const meta of beforeHandles)
\*     if (await onHandle(ctx, meta)) return ctx._response
V0_BeforeHandle ==
    /\ At("compileHandler", "beforeHandle")
    /\ IF pc.i > ChainLen("beforeHandle")
       THEN /\ pc' = Goto("handler", 0)
            /\ UNCHANGED <<ctx, called, result>>
       ELSE \E out \in Outcomes :
            /\ called' = Append(called, Call("beforeHandle", pc.i, out))
            /\ CASE out = "undefined" ->
                      /\ pc' = Goto("beforeHandle", pc.i + 1)
                      /\ UNCHANGED <<ctx, result>>
                 [] out = "value" ->
                      /\ ctx' = Fulfil(ctx, ValueOf("beforeHandle", pc.i))
                      /\ result' = Return(ctx'.response)
                      /\ pc' = Goto("finally", 0)
                 [] out = "throw" ->
                      /\ Raise("beforeHandle")
                      /\ UNCHANGED ctx
    /\ UNCHANGED build
    /\ UNCHANGED notReq

\* if (await onHandle(ctx, handlerMeta)) return ctx._response
V0_Handler ==
    /\ At("compileHandler", "handler")
    /\ \E out \in Outcomes :
          /\ called' = Append(called, Call("handler", 0, out))
          /\ CASE out = "undefined" ->
                    /\ pc' = Goto("notFound", 0)
                    /\ UNCHANGED <<ctx, result>>
               [] out = "value" ->
                    /\ ctx' = Fulfil(ctx, ValueOf("handler", 0))
                    /\ result' = Return(ctx'.response)
                    /\ pc' = Goto("finally", 0)
               [] out = "throw" ->
                    /\ Raise("handler")
                    /\ UNCHANGED ctx
    /\ UNCHANGED build
    /\ UNCHANGED notReq

\* ctx._set.status = 404; ctx._response = newResponse(null, ctx._set);
\* ctx._fulfilled = true; return ctx._response
V0_NotFound ==
    /\ At("compileHandler", "notFound")
    /\ ctx' = Fulfil([ctx EXCEPT !.status = NotFound], Null)
    /\ result' = Return(ctx'.response)
    /\ pc' = Goto("finally", 0)
    /\ UNCHANGED <<build, called>>
    /\ UNCHANGED notReq

\* finally { if (ctx._fulfilled && afterHandle) { ctx._set = { headers: {} },
\*     ctx._fulfilled = false; .. } }; afterHandle is undefined when the
\* controller has no after-handle hook
V0_Finally ==
    /\ At("compileHandler", "finally")
    /\ IF ctx.fulfilled /\ ChainLen("afterHandle") > 0
       THEN /\ ctx' = [ctx EXCEPT !.status = NoStatus, !.fulfilled = FALSE]
            /\ pc' = Goto("afterHandle", 1)
       ELSE /\ pc' = Goto("done", 0)
            /\ UNCHANGED ctx
    /\ UNCHANGED <<build, called, result>>
    /\ UNCHANGED notReq

\* for (const meta of afterHandle) if (await onHandle(ctx, meta))
\*     ctx._set = { headers: {} }
\* if (ctx._fulfilled) return ctx._response
V0_AfterHandle ==
    /\ At("compileHandler", "afterHandle")
    /\ IF pc.i > ChainLen("afterHandle")
       THEN /\ result' = IF ctx.fulfilled THEN Return(ctx.response) ELSE result
            /\ pc' = Goto("done", 0)
            /\ UNCHANGED <<ctx, called>>
       ELSE \E out \in Outcomes :
            /\ called' = Append(called, Call("afterHandle", pc.i, out))
            /\ CASE out = "undefined" ->
                      /\ pc' = Goto("afterHandle", pc.i + 1)
                      /\ UNCHANGED <<ctx, result>>
                 [] out = "value" ->
                      /\ ctx' = [Fulfil(ctx, ValueOf("afterHandle", pc.i))
                                    EXCEPT !.status = NoStatus]
                      /\ pc' = Goto("afterHandle", pc.i + 1)
                      /\ UNCHANGED result
                 [] out = "throw" ->
                      /\ result' = Throw("afterHandle")
                      /\ pc' = Goto("done", 0)
                      /\ UNCHANGED ctx
    /\ UNCHANGED build
    /\ UNCHANGED notReq

\* ------------------------------------------------------------------------
\* One request through one compiled handler
\* ------------------------------------------------------------------------
InitReq ==
    /\ InitCtl
    /\ IdleResponse
    /\ IdleConstruction
    /\ InitP1
    /\ build \in Builds
    /\ pc = Goto("start", 0)
    /\ ctx = NoCtx
    /\ called = <<>>
    /\ result = Pending
    /\ IdleDI
    /\ IdleStream

NextReq ==
    \/ V6_Start \/ V6_Request \/ V6_Parse \/ V6_ParseBody \/ V6_BeforeHandle
    \/ V6_Handler \/ V6_AfterHandle \/ V6_MapResponse \/ V6_Return
    \/ V6_Finally \/ V6_AfterResponse
    \/ V4_Start \/ V4_ParseBody \/ V4_BeforeHandle \/ V4_Handler
    \/ V4_MapResponse \/ V4_NotFound \/ V4_Finally \/ V4_AfterHandle
    \/ V0_Start \/ V0_BeforeHandle \/ V0_Handler \/ V0_NotFound
    \/ V0_Finally \/ V0_AfterHandle

SpecReq == InitReq /\ [][NextReq]_vars

\* ------------------------------------------------------------------------
\* Parameter resolution for concurrent requests
\* ------------------------------------------------------------------------
\* the parameter lists of the handlers and hooks the model tries
ParamLists ==
    {<<"S2">>, <<"R1", "R1">>, <<"body", "R2">>, <<"I1", "I1">>,
     <<"body", "I1">>, <<"R1", "S1">>, <<"I1", "R2">>}

\* instance[propertyKey](...mapParams(ctx, paramtypes)) for request r
DIResolve(r, paramtypes) ==
    LET st == [single |-> di_single, instances |-> di_ctx[r].instances,
               heap |-> di_heap, log |-> di_log]
        res == mapParams(di_version, st, r, paramtypes)
    IN  /\ di_single' = res.st.single
        /\ di_ctx' = [di_ctx EXCEPT ![r].instances = res.st.instances]
        /\ di_heap' = res.st.heap
        /\ di_log' = res.st.log
        /\ di_calls' = di_calls + 1
        /\ UNCHANGED di_version

DoResolve ==
    \E r \in Requests, paramtypes \in ParamLists :
        /\ di_calls < MaxCalls
        /\ DIResolve(r, paramtypes)
        /\ UNCHANGED ccVars
        /\ UNCHANGED notDI

InitDI ==
    /\ InitCtl
    /\ IdleResponse
    /\ IdleConstruction
    /\ InitP1
    /\ IdleReq
    /\ di_version \in {"part_004", "part_005"}
    /\ EmptyDI
    /\ IdleConc
    /\ IdleStream

NextDI == DoResolve

SpecDI == InitDI /\ [][NextDI]_vars

\* ------------------------------------------------------------------------
\* One generator handler streamed to one client
\* ------------------------------------------------------------------------
\* the generators the model tries
Generators ==
    {[yields |-> ys, ret |-> ret] : ys \in SeqUpTo(Chunks, MaxYields),
                                    ret \in Returns}

Is4 == sm_version \in {"part_004", "part_006"}
Is0 == sm_version = "compose.ts"

\* the places where start(controller) or onHandle waits: the event loop can
\* deliver the abort of the request there
Awaits == {"firstAwait", "second", "pulled", "sleep"}

Pulled(events) ==
    Append(events, Event("pull", GenNext(sm_gen, sm_pos, sm_returned).value))

Enqueued(events, value) ==
    IF value = "undefined" THEN events
    ELSE Append(events, Event("enqueue", value))

\* ctx.signal fires; the listener, when start(controller) has registered
\* it, sets end and closes the controller
Abort ==
    /\ ~sm_aborted
    /\ sm_pc \in Awaits
    /\ sm_aborted' = TRUE
    /\ sm_end' = (sm_end \/ sm_listening)
    /\ sm_closed' = (sm_closed \/ sm_listening)
    /\ sm_events' = Append(sm_events, Event("abort", "undefined"))
    /\ UNCHANGED <<sm_version, sm_gen, sm_pos, sm_returned, sm_pc, sm_chunk,
                   sm_kind, sm_raw, sm_listening, sm_body>>
    /\ UNCHANGED notSm

\* const { value, done } = await res.next()
FirstNext ==
    /\ sm_pc = "first"
    /\ sm_chunk' = GenNext(sm_gen, sm_pos, sm_returned)
    /\ sm_pos' = sm_pos + 1
    /\ sm_events' = Pulled(sm_events)
    /\ sm_pc' = "firstAwait"
    /\ UNCHANGED <<sm_version, sm_gen, sm_returned, sm_kind, sm_raw,
                   sm_listening, sm_end, sm_aborted, sm_body, sm_closed>>

\* done ? value : the response made of the return value
NotAStream ==
    /\ sm_kind' = "value"
    /\ sm_raw' = sm_chunk.value
    /\ sm_pc' = "finished"
    /\ UNCHANGED <<sm_version, sm_gen, sm_pos, sm_returned, sm_chunk,
                   sm_listening, sm_end, sm_aborted, sm_body, sm_closed,
                   sm_events>>

\* for await (const chunk of res): the loop asks the generator for a chunk
ForAwaitNext ==
    /\ sm_pc = "pull"
    /\ sm_chunk' = GenNext(sm_gen, sm_pos, sm_returned)
    /\ sm_pos' = sm_pos + 1
    /\ sm_events' = Pulled(sm_events)
    /\ sm_pc' = "pulled"
    /\ UNCHANGED <<sm_version, sm_gen, sm_returned, sm_kind, sm_raw,
                   sm_listening, sm_end, sm_aborted, sm_body, sm_closed>>

\* break in a for await: the loop calls return() on the generator
ForAwaitBreak ==
    /\ sm_returned' = TRUE
    /\ sm_events' = Append(sm_events, Event("return", "undefined"))
    /\ sm_pc' = "close"
    /\ UNCHANGED <<sm_version, sm_gen, sm_pos, sm_chunk, sm_kind, sm_raw,
                   sm_listening, sm_end, sm_aborted, sm_body, sm_closed>>

\* the loop ends because the generator is done
ForAwaitDone ==
    /\ sm_pc' = "close"
    /\ UNCHANGED <<sm_version, sm_gen, sm_pos, sm_returned, sm_chunk, sm_kind,
                   sm_raw, sm_listening, sm_end, sm_aborted, sm_body,
                   sm_closed, sm_events>>

\* controller.enqueue(chunk) and the place to go on from
EnqueueChunk(value, to) ==
    /\ sm_body' = Enqueue(sm_body, value)
    /\ sm_events' = Enqueued(sm_events, value)
    /\ sm_pc' = to
    /\ UNCHANGED <<sm_version, sm_gen, sm_pos, sm_returned, sm_chunk, sm_kind,
                   sm_raw, sm_listening, sm_end, sm_aborted, sm_closed>>

\* await Bun.sleep(0) / await scheduler.yield() is over
Resume ==
    /\ sm_pc = "sleep"
    /\ sm_pc' = "pull"
    /\ UNCHANGED <<sm_version, sm_gen, sm_pos, sm_returned, sm_chunk, sm_kind,
                   sm_raw, sm_listening, sm_end, sm_aborted, sm_body,
                   sm_closed, sm_events>>

\* controller.close() at the end of start(controller)
CloseController ==
    /\ sm_pc = "close"
    /\ sm_closed' = TRUE
    /\ sm_events' = Append(sm_events, Event("close", "undefined"))
    /\ sm_pc' = "finished"
    /\ UNCHANGED <<sm_version, sm_gen, sm_pos, sm_returned, sm_chunk, sm_kind,
                   sm_raw, sm_listening, sm_end, sm_aborted, sm_body>>

\* ---- onHandle of part_004, the handler block of part_006 ----------------
S4_First ==
    /\ Is4
    /\ FirstNext
    /\ UNCHANGED notSm

\* the first chunk is enqueued as start(controller) begins
S4_Create ==
    /\ Is4
    /\ sm_pc = "firstAwait"
    /\ IF sm_chunk.done THEN NotAStream
       ELSE /\ sm_kind' = "stream"
            /\ sm_listening' = TRUE
            /\ sm_body' = Enqueue(sm_body, sm_chunk.value)
            /\ sm_events' = Enqueued(sm_events, sm_chunk.value)
            /\ sm_pc' = "pull"
            /\ UNCHANGED <<sm_version, sm_gen, sm_pos, sm_returned, sm_chunk,
                           sm_raw, sm_end, sm_aborted, sm_closed>>
    /\ UNCHANGED notSm

S4_Pull ==
    /\ Is4
    /\ ForAwaitNext
    /\ UNCHANGED notSm

\* the body of the loop: if (end) break; enqueue; await Bun.sleep(0)
S4_Pulled ==
    /\ Is4
    /\ sm_pc = "pulled"
    /\ IF sm_chunk.done THEN ForAwaitDone
       ELSE IF sm_end THEN ForAwaitBreak
       ELSE EnqueueChunk(sm_chunk.value, "sleep")
    /\ UNCHANGED notSm

S4_Sleep ==
    /\ Is4
    /\ Resume
    /\ UNCHANGED notSm

S4_Close ==
    /\ Is4
    /\ CloseController
    /\ UNCHANGED notSm

\* ---- onHandle of compose.ts ---------------------------------------------
S0_First ==
    /\ Is0
    /\ FirstNext
    /\ UNCHANGED notSm

\* the first chunk is enqueued and the generator is asked again at once:
\* await res.next(controller)
S0_Create ==
    /\ Is0
    /\ sm_pc = "firstAwait"
    /\ IF sm_chunk.done THEN NotAStream
       ELSE /\ sm_kind' = "stream"
            /\ sm_listening' = TRUE
            /\ sm_body' = Enqueue(sm_body, sm_chunk.value)
            /\ sm_chunk' = GenNext(sm_gen, sm_pos, sm_returned)
            /\ sm_pos' = sm_pos + 1
            /\ sm_events' = Pulled(Enqueued(sm_events, sm_chunk.value))
            /\ sm_pc' = "second"
            /\ UNCHANGED <<sm_version, sm_gen, sm_returned, sm_raw, sm_end,
                           sm_aborted, sm_closed>>
    /\ UNCHANGED notSm

\* const { value } = ...: done is not looked at; if (!end) { ... }
S0_Second ==
    /\ Is0
    /\ sm_pc = "second"
    /\ IF sm_end THEN ForAwaitDone
       ELSE IF sm_chunk.value = "undefined"
       THEN EnqueueChunk(sm_chunk.value, "pull")
       ELSE EnqueueChunk(sm_chunk.value, "sleep")
    /\ UNCHANGED notSm

S0_Pull ==
    /\ Is0
    /\ ForAwaitNext
    /\ UNCHANGED notSm

\* if (end) break; if (chunk === undefined) continue; enqueue; yield
S0_Pulled ==
    /\ Is0
    /\ sm_pc = "pulled"
    /\ IF sm_chunk.done THEN ForAwaitDone
       ELSE IF sm_end THEN ForAwaitBreak
       ELSE IF sm_chunk.value = "undefined"
       THEN EnqueueChunk(sm_chunk.value, "pull")
       ELSE EnqueueChunk(sm_chunk.value, "sleep")
    /\ UNCHANGED notSm

S0_Yield ==
    /\ Is0
    /\ Resume
    /\ UNCHANGED notSm

S0_Close ==
    /\ Is0
    /\ CloseController
    /\ UNCHANGED notSm

InitStream ==
    /\ InitCtl
    /\ IdleResponse
    /\ IdleConstruction
    /\ InitP1
    /\ IdleReq
    /\ IdleDI
    /\ sm_version \in StreamVersions
    /\ sm_gen \in Generators
    /\ NoStream

NextStream ==
    \/ Abort
    \/ S4_First \/ S4_Create \/ S4_Pull \/ S4_Pulled \/ S4_Sleep \/ S4_Close
    \/ S0_First \/ S0_Create \/ S0_Pull \/ S0_Second \/ S0_Pulled
    \/ S0_Yield \/ S0_Close

SpecStream == InitStream /\ [][NextStream]_vars

\* ------------------------------------------------------------------------
\* Two requests through one compiled route handler, interleaved at every await
\* ------------------------------------------------------------------------
\* the parameter lists of the handlers and hooks the requests call
CallParams ==
    {<<"store", "responseInit">>, <<"body", "R2">>, <<"R1", "store">>,
     <<"responseInit", "S2">>, <<"I1">>}

\* async (ctx, server) => { ctx._server = server; ctx._set = { .. }: up to
\* the first await
CC_Start ==
    \E r \in Requests :
        /\ cc_pc[r] = "start"
        /\ di_heap' = FreshSet(di_heap, r)
        /\ cc_fields' = [cc_fields EXCEPT ![r].set = LastOf(di_heap', "responseInit")]
        /\ cc_pc' = [cc_pc EXCEPT ![r] = "parseBody"]
        /\ UNCHANGED <<di_version, di_single, di_ctx, di_log, di_calls,
                       cc_writes, cc_response>>
        /\ UNCHANGED notDI

\* if (bodyPresence) ctx._body = await parseBody(ctx)
CC_ParseBody ==
    \E r \in Requests, bodyPresence \in BOOLEAN :
        /\ cc_pc[r] = "parseBody"
        /\ IF bodyPresence
           THEN /\ di_heap' = Append(di_heap, [type |-> "body", args |-> <<>>,
                                               request |-> r])
                /\ cc_fields' = [cc_fields EXCEPT ![r].body = Len(di_heap')]
           ELSE UNCHANGED <<di_heap, cc_fields>>
        /\ cc_pc' = [cc_pc EXCEPT ![r] = "call"]
        /\ UNCHANGED <<di_version, di_single, di_ctx, di_log, di_calls,
                       cc_writes, cc_response>>
        /\ UNCHANGED notDI

\* value = ctx._store ??= {}: the heap with the store of request r on it
WithStore(heap, r, leaves) ==
    IF "store" \in leaves /\ cc_fields[r].store = NoInstance
    THEN Append(heap, [type |-> "store", args |-> <<>>, request |-> r])
    ELSE heap

\* the objects the method is called with
Handed(r, args, leaves, store) ==
    ({args[k] : k \in 1..Len(args)}
        \cup (IF "store" \in leaves THEN {store} ELSE {})
        \cup (IF "body" \in leaves THEN {cc_fields[r].body} ELSE {})
        \cup (IF "responseInit" \in leaves THEN {cc_fields[r].set} ELSE {}))
    \ {NoInstance}

\* ctx._set = { ...ctx._set, ...init, headers: { .. } }: what was written
\* to the old object is in the new one
CopySet(writes, old, new) ==
    writes \cup {<<new, w[2]>> : w \in {x \in writes : x[1] = old}}

\* onHandle(ctx, meta) for request r: the resolution of the parameters, the
\* writes of the method, the new ctx._set
onHandle(r, paramtypes) ==
    LET Copied(res, store, handed, copied, set) ==
            [st |-> res.st, err |-> "", heap |-> copied,
             fields |-> [cc_fields[r] EXCEPT !.store = store, !.set = set],
             writes |-> CopySet(cc_writes \cup {<<id, r>> : id \in handed},
                                cc_fields[r].set, set)]
        Handled(res, leaves, stored, store) ==
            Copied(res, store, Handed(r, res.args, leaves, store),
                   FreshSet(stored, r), LastOf(FreshSet(stored, r), "responseInit"))
        Stored(res, leaves, stored) ==
            Handled(res, leaves, stored,
                    IF Len(stored) > Len(res.st.heap) THEN Len(stored)
                    ELSE cc_fields[r].store)
        Resolve(res, leaves) ==
            IF res.err # ""
            THEN [st |-> res.st, err |-> res.err, heap |-> res.st.heap,
                  fields |-> cc_fields[r], writes |-> cc_writes]
            ELSE Stored(res, leaves, WithStore(res.st.heap, r, leaves))
    IN  Resolve(mapParams(di_version,
                          [single |-> di_single, instances |-> di_ctx[r].instances,
                           heap |-> di_heap, log |-> di_log],
                          r, paramtypes),
                LeavesResolved(di_version, paramtypes))

\* await onHandle(ctx, meta): instance[propertyKey](...mapParams(ctx,
\* paramtypes)); the method writes to every object it is handed; a method
\* that throws ends the request
CC_Call ==
    \E r \in Requests, paramtypes \in CallParams :
        /\ cc_pc[r] = "call"
        /\ di_calls < MaxCalls
        /\ \E out \in {onHandle(r, paramtypes)} :
              /\ di_single' = out.st.single
              /\ di_ctx' = [di_ctx EXCEPT ![r].instances = out.st.instances]
              /\ di_log' = out.st.log
              /\ di_heap' = out.heap
              /\ cc_fields' = [cc_fields EXCEPT ![r] = out.fields]
              /\ cc_writes' = out.writes
              /\ cc_pc' = [cc_pc EXCEPT ![r] =
                               IF out.err # "" THEN "done" ELSE "call"]
        /\ di_calls' = di_calls + 1
        /\ UNCHANGED <<di_version, cc_response>>
        /\ UNCHANGED notDI

\* ctx._response = newResponse(ctx._rawResponse, ctx._set); return
CC_Return ==
    \E r \in Requests :
        /\ cc_pc[r] = "call"
        /\ cc_response' = [cc_response EXCEPT ![r] =
               {w[2] : w \in {x \in cc_writes : x[1] = cc_fields[r].set}}]
        /\ cc_pc' = [cc_pc EXCEPT ![r] = "done"]
        /\ UNCHANGED <<diVars, cc_fields, cc_writes>>
        /\ UNCHANGED notDI

InitConc ==
    /\ InitCtl
    /\ IdleResponse
    /\ IdleConstruction
    /\ InitP1
    /\ IdleReq
    /\ IdleStream
    /\ di_version \in {"part_004", "part_005"}
    /\ EmptyDI
    /\ cc_pc = [r \in Requests |-> "start"]
    /\ cc_fields = [r \in Requests |-> NoFields]
    /\ cc_writes = {}
    /\ cc_response = [r \in Requests |-> {}]

NextConc == CC_Start \/ CC_ParseBody \/ CC_Call \/ CC_Return

SpecConc == InitConc /\ [][NextConc]_vars

\* ------------------------------------------------------------------------
\* construct(type) called outside of any request, for every class
\* ------------------------------------------------------------------------
\* the log keeps what each call returned, NoInstance when it threw
Construct(type) ==
    LET st == [single |-> di_single, instances |-> NewContext.instances,
               heap |-> di_heap, log |-> di_log]
    IN  \E res \in {construct(st, type)} :
            /\ di_single' = res.st.single
            /\ di_heap' = res.st.heap
            /\ di_log' = Append(di_log,
                    [request |-> 0, type |-> type,
                     id |-> IF res.err = "" THEN res.args[1] ELSE NoInstance])
            /\ err' = res.err
            /\ di_calls' = di_calls + 1
            /\ UNCHANGED <<di_version, di_ctx, injectableFunctionMap>>

DoConstruct ==
    \E type \in Constructors :
        /\ di_calls < MaxCalls
        /\ Construct(type)
        /\ UNCHANGED <<opt, use, handlerIndex, hookList, routes>>
        /\ UNCHANGED <<p1Vars, reqVars, smVars, ccVars, made, construction>>

NextConstruct == DoConstruct

SpecConstruct == InitDI /\ [][NextConstruct]_vars

\* ------------------------------------------------------------------------
\* registerInjectable called again and again, from an empty map
\* ------------------------------------------------------------------------
Scopes3 == {"SINGLETON", "REQUEST", "INSTANCE"}

InitRegister ==
    /\ InitCtl
    /\ IdleResponse
    /\ IdleConstruction
    /\ InitP1
    /\ IdleReq
    /\ IdleStream
    /\ IdleConc
    /\ di_version = "part_004"
    /\ di_single = [type \in Constructors |-> NoInstance]
    /\ di_ctx = [r \in Requests |-> NewContext]
    /\ di_heap = <<>>
    /\ di_log = <<>>
    /\ di_calls = 0
    /\ injectableFunctionMap = [type \in Constructors |-> "undefined"]

DoRegister ==
    \E constructor \in {"S1", "R1", "I1", "U", "body"}, scope \in Scopes3 :
        /\ registerInjectable(constructor, scope)
        /\ UNCHANGED <<opt, use, handlerIndex, hookList, routes>>
        /\ UNCHANGED <<p1Vars, reqVars, diVars, smVars, ccVars, made, construction>>

NextRegister == DoRegister

SpecRegister == InitRegister /\ [][NextRegister]_vars

\* ------------------------------------------------------------------------
\* construct on classes that may need one another: every graph of
\* constructor parameters over two classes, each class a SINGLETON or a
\* REQUEST class
\* ------------------------------------------------------------------------
InitCycle ==
    /\ InitCtl
    /\ IdleResponse
    /\ InitP1
    /\ IdleReq
    /\ IdleDI
    /\ IdleConc
    /\ IdleStream
    /\ \E paramtypes \in [Classes -> ClassParams],
          scope \in [Classes -> {"SINGLETON", "REQUEST"}] :
          construction = [NoConstruction EXCEPT
                             !.paramtypes = paramtypes, !.scope = scope,
                             !.map = [class \in Classes |-> NoInstance]]

\* construct(T) is called from outside
CycleCall ==
    \E T \in Classes :
        /\ construction.status # "running"
        /\ construction' =
               Enter([construction EXCEPT !.status = "running", !.error = ""], T,
                     [construction EXCEPT !.status = "returned", !.error = ""])
        /\ UNCHANGED notConstruction

\* the call goes on
CycleStep ==
    /\ construction.status = "running"
    /\ construction' = ConstructStep(construction)
    /\ UNCHANGED notConstruction

NextCycle == CycleCall \/ CycleStep

\* a call that has begun goes on: construct is synchronous
SpecCycle == InitCycle /\ [][NextCycle]_vars /\ WF_vars(CycleStep)

\* ------------------------------------------------------------------------
\* Calls of newResponse: with an init of the caller's, and as buildHandler
\* calls it at the end of a request, with the ctx._set it made from the
\* configuration of the route
\* ------------------------------------------------------------------------
\* newResponse(data, init)
NewResponseCall ==
    \E data \in DataValues, init \in ResponseInits :
        /\ made' = [by |-> "newResponse", data |-> data, set |-> init,
                    init |-> init, response |-> NewResponse(data, init)]
        /\ UNCHANGED notMade

\* ctx._set = { status: 200, ...set, .. }; ..;
\* return response = newResponse(ctx._response, ctx._set)
BuildHandlerReturn ==
    \E data \in DataValues, set \in ResponseInits :
        /\ made' = [by |-> "buildHandler", data |-> data, set |-> set,
                    init |-> CtxSet(set),
                    response |-> NewResponse(data, CtxSet(set))]
        /\ UNCHANGED notMade

NextResponse == NewResponseCall \/ BuildHandlerReturn

SpecResponse == Init /\ [][NextResponse]_vars

\* ------------------------------------------------------------------------
\* Calls of assignHeaders: an accumulated header record and an incoming one
\* ------------------------------------------------------------------------
\* assignHeaders(this.#init.headers, init?.headers) of src/unnamed/part_000
AssignHeadersCall ==
    \E headers \in HeaderRecords("own", "own2"), init \in HeaderRecords("set", "set2") :
        /\ made' = [by |-> "part_000", headers |-> NewHeaders(headers),
                    init |-> init,
                    merged |-> NewHeaders(assignHeaders(headers, init))]
        /\ UNCHANGED notMade

\* assignHeaders(new Headers(data.headers), init?.headers) of
\* src/unnamed/part_008
AssignHeaders8Call ==
    \E headers \in HeaderRecords("own", "own2"), init \in HeaderRecords("set", "set2") :
        /\ made' = [by |-> "part_008", headers |-> NewHeaders(headers),
                    init |-> init,
                    merged |-> assignHeaders8(NewHeaders(headers), init)]
        /\ UNCHANGED notMade

NextHeaders == AssignHeadersCall \/ AssignHeaders8Call

SpecHeaders == Init /\ [][NextHeaders]_vars

\* ------------------------------------------------------------------------
\* The use-list controller: the registrations the model tries
\* ------------------------------------------------------------------------
P1HookInputs == {"beforeHandle", "afterHandle"}

P1HookCount(c) == SumOver([name \in HookType |-> Len(p1_hookList[c][name])], HookType)

\* every Handler object made so far: one per route() and one per mounted copy
P1TotalRoutes == Len(p1_heap)
P1TotalUses == SumOver([c \in Controllers |-> Cardinality(p1_used[c])], Controllers)

P1DoInit ==
    \E c \in Controllers, prefix \in Prefixes :
        P1Init(c, [prefix |-> prefix, init |-> NoInit]) /\ UNCHANGED notP1

P1DoHook ==
    \E c \in Controllers, name \in P1HookInputs :
        /\ P1HookCount(c) < MaxEach
        /\ P1Hook(c, name, Members[P1HookCount(c) + 1])
        /\ UNCHANGED notP1

P1DoRoute ==
    \E c \in Controllers, in \in RouteInputs :
        /\ P1TotalRoutes < MaxRoutes + 1
        /\ P1Route(c, in.path, in.method, Members[Len(p1_heap) + 1], "Function", NoInit)
        /\ UNCHANGED notP1

P1DoUse ==
    \E c \in Controllers : \E router \in Below(c) :
        /\ P1TotalUses < MaxUses
        /\ P1Use(c, router)
        /\ UNCHANGED notP1

P1DoMount ==
    \E c \in Controllers : \E router \in Below(c), path \in MountPaths :
        /\ P1TotalRoutes < MaxRoutes + 1
        /\ P1Mount(c, path, "sub", router, NoInit)
        /\ UNCHANGED notP1

NextP1 == P1DoInit \/ P1DoHook \/ P1DoRoute \/ P1DoUse \/ P1DoMount

SpecP1 == Init /\ [][NextP1]_vars

\* ------------------------------------------------------------------------
\* Route tables: the same path and method registered more than once
\* ------------------------------------------------------------------------
\* route() is called with a path with and without its leading slash, without
\* a method and with two methods
TableInputs ==
    {[path |-> path, method |-> method] :
        path \in {<<"a">>, <<"/", "a">>}, method \in {"", "GET", "POST"}}

\* the controllers that declare routes; X is never initialized
TableControllers == {"A", "B"}

TableInit ==
    \E c \in TableControllers :
        ControllerInit(c, [prefix |-> <<"/">>, init |-> NoInit]) /\ UNCHANGED notCtl

TableRoute ==
    \E c \in TableControllers, in \in TableInputs :
        /\ TableSize(routes[c], 1) < MaxTable
        /\ Route(c, in.path, in.method, NextMember(c), "Function", "", NoInit)
        /\ UNCHANGED notCtl

TableMount ==
    \E router \in Below("A"), path \in MountPaths :
        /\ TableSize(routes["A"], 1) + TableSize(routes[router], 1) <= MaxTable
        /\ Mount("A", path, "sub", router, NoInit)
        /\ UNCHANGED notCtl

TableUse ==
    \E router \in Below("A") :
        /\ Len(use["A"]) < MaxUses
        /\ TableSize(routes["A"], 1) + TableSize(routes[router], 1) <= MaxTable
        /\ Use("A", router)
        /\ UNCHANGED notCtl

NextTable == TableInit \/ TableRoute \/ TableMount \/ TableUse

SpecTable == Init /\ [][NextTable]_vars

\* the same on the use-list controller (src/unnamed/part_001)
P1TableInit ==
    \E c \in TableControllers :
        P1Init(c, [prefix |-> <<"/">>, init |-> NoInit]) /\ UNCHANGED notP1

P1TableRoute ==
    \E c \in TableControllers, in \in TableInputs :
        /\ Len(p1_heap) < MaxTable
        /\ P1Route(c, in.path, in.method, Members[Len(p1_heap) + 1], "Function", NoInit)
        /\ UNCHANGED notP1

\* a Static route: a value that is no function and no controller
P1TableStatic ==
    \E c \in TableControllers, path \in {<<"a">>, <<"/", "a">>} :
        /\ Len(p1_heap) < MaxTable
        /\ P1Route(c, path, "", Members[Len(p1_heap) + 1], "Static", NoInit)
        /\ UNCHANGED notP1

P1TableMount ==
    \E router \in Below("A"), path \in MountPaths :
        /\ Len(p1_heap) + TableSize(p1_routes[router], 1) <= MaxTable
        /\ P1Mount("A", path, "sub", router, NoInit)
        /\ UNCHANGED notP1

P1TableUse ==
    \E router \in Below("A") :
        /\ router \notin p1_used["A"]
        /\ \A i \in 1..Len(p1_heap) : Len(p1_heap[i].use) <= MaxUses + 1
        /\ P1Use("A", router)
        /\ UNCHANGED notP1

NextP1Table ==
    P1TableInit \/ P1TableRoute \/ P1TableStatic \/ P1TableMount \/ P1TableUse

SpecP1Table == Init /\ [][NextP1Table]_vars

\* ------------------------------------------------------------------------
\* The life of a controller: init() called again and again with different
\* options, between route registrations on A
\* ------------------------------------------------------------------------
Created == [status |-> 201, statusText |-> "Created", header |-> "a"]

InitOptions ==
    {[prefix |-> prefix, init |-> init] :
        prefix \in {<<"p">>, <<"q">>}, init \in {NoInit, Created}}

LifeInit ==
    \E c \in Controllers, o \in InitOptions :
        ControllerInit(c, o) /\ UNCHANGED notCtl

NextLife == LifeInit \/ LocalRoute \/ LocalMount \/ LocalUse

SpecLife == Init /\ [][NextLife]_vars

\* ------------------------------------------------------------------------
\* Response configurations: controllers, routes and mounts that each come
\* with a configuration of their own or with none
\* ------------------------------------------------------------------------
Accepted == [status |-> 202, statusText |-> "", header |-> "b"]
Partial == [status |-> NoStatus, statusText |-> "Partial", header |-> ""]

\* A mounts B and B mounts X; the routes are declared on X
ConfigOf(c) == IF c = "A" THEN {Partial} ELSE {NoInit, Created}

ConfigInit ==
    \E c \in Controllers : \E init \in ConfigOf(c) :
        ControllerInit(c, [prefix |-> <<"p">>, init |-> init]) /\ UNCHANGED notCtl

ConfigHook ==
    \E c \in {"A", "B"} :
        /\ HookCount(c) < MaxEach
        /\ Hook(c, "beforeHandle", NextMember(c), "Function")
        /\ UNCHANGED notCtl

ConfigRoute ==
    \E in \in RouteInputs, init \in {NoInit, Accepted} :
        /\ TotalRoutes < MaxRoutes + 1
        /\ Route("X", in.path, in.method, NextMember("X"), "Function", "", init)
        /\ UNCHANGED notCtl

ConfigMount ==
    \E c \in {"A", "B"}, path \in MountPaths, init \in {NoInit, Partial} :
        LET router == IF c = "A" THEN "B" ELSE "X" IN
        /\ TableSize(routes[c], 1) + TableSize(routes[router], 1) <= MaxRoutes + 1
        /\ Mount(c, path, "sub", router, init)
        /\ UNCHANGED notCtl

NextConfig == ConfigInit \/ ConfigHook \/ ConfigRoute \/ ConfigMount

SpecConfig == Init /\ [][NextConfig]_vars

\* the same on the use-list controller (src/unnamed/part_001)
P1ConfigInit ==
    \E c \in Controllers : \E init \in ConfigOf(c) :
        P1Init(c, [prefix |-> <<"p">>, init |-> init]) /\ UNCHANGED notP1

P1ConfigRoute ==
    \E in \in RouteInputs, init \in {NoInit, Accepted} :
        /\ Len(p1_heap) < MaxRoutes + 1
        /\ P1Route("X", in.path, in.method, Members[Len(p1_heap) + 1], "Function", init)
        /\ UNCHANGED notP1

P1ConfigMount ==
    \E c \in {"A", "B"}, path \in MountPaths, init \in {NoInit, Partial} :
        LET router == IF c = "A" THEN "B" ELSE "X" IN
        /\ Len(p1_heap) + TableSize(p1_routes[router], 1) <= 3 * (MaxRoutes + 1)
        /\ P1Mount(c, path, "sub", router, init)
        /\ UNCHANGED notP1

NextP1Config == P1ConfigInit \/ P1ConfigRoute \/ P1ConfigMount

SpecP1Config == Init /\ [][NextP1Config]_vars

\* ------------------------------------------------------------------------
\* Several use calls: each controller has a response configuration of its
\* own or none, routes are declared on X, and A uses B and X, B uses X
\* ------------------------------------------------------------------------
OwnConfig(c) == IF c = "A" THEN Partial ELSE IF c = "B" THEN Accepted ELSE Created

UsesInit ==
    \E c \in Controllers : \E init \in {NoInit, OwnConfig(c)} :
        ControllerInit(c, [prefix |-> <<"p">>, init |-> init]) /\ UNCHANGED notCtl

UsesUse ==
    \E c \in Controllers : \E router \in Below(c) :
        /\ \A i \in 1..Len(use[c]) : use[c][i] # router
        /\ TableSize(routes[c], 1) + TableSize(routes[router], 1) <= MaxRoutes + 1
        /\ Use0(c, router)
        /\ UNCHANGED notCtl

NextUses == UsesInit \/ ConfigRoute \/ UsesUse

SpecUses == Init /\ [][NextUses]_vars

\* the same on the use-list controller (src/unnamed/part_001)
P1UsesInit ==
    \E c \in Controllers :
        P1Init(c, [prefix |-> <<"p">>, init |-> NoInit]) /\ UNCHANGED notP1

P1UsesUse ==
    \E c \in Controllers : \E router \in Below(c) :
        /\ router \notin p1_used[c]
        /\ P1Use(c, router)
        /\ UNCHANGED notP1

NextP1Uses == P1UsesInit \/ P1ConfigRoute \/ P1UsesUse

SpecP1Uses == Init /\ [][NextP1Uses]_vars

\* the same on the use-list controller (src/unnamed/part_001)
P1LifeInit ==
    \E c \in TableControllers, o \in InitOptions :
        P1Init(c, o) /\ UNCHANGED notP1

NextP1Life == P1LifeInit \/ P1DoRoute \/ P1DoMount

SpecP1Life == Init /\ [][NextP1Life]_vars

\* ------------------------------------------------------------------------
\* The before-handle loop of routes(): hooks run one after the other in chain
\* order until one fulfils the request (returns a defined value).
\*   for (const meta of beforeHandle) if (await onHandle(ctx, meta)) return
\* fulfils[i] says whether chain[i] returns a defined value; the result is the
\* sequence of hooks invoked.
\* ------------------------------------------------------------------------
RECURSIVE BeforeHandleRun(_, _, _)
BeforeHandleRun(chain, fulfils, i) ==
    IF i > Len(chain) THEN <<>>
    ELSE IF fulfils[i] THEN <<chain[i]>>
    ELSE <<chain[i]>> \o BeforeHandleRun(chain, fulfils, i + 1)

\* ------------------------------------------------------------------------
\* Claims about the effective chains (src/controller.ts)
\* ------------------------------------------------------------------------
\* every handler of the table of c
TableHandlers(c) ==
    UNION {{routes[c][i].entries[j].handler : j \in 1..Len(routes[c][i].entries)} :
              i \in 1..Len(routes[c])}

AllHandlers == UNION {TableHandlers(c) : c \in Controllers}

\* a route declared directly on its controller, no use and no mount involved
DeclaredDirectly(h) == h.env = <<>> /\ use[h.controller] = <<>>

Increasing(chain) ==
    \A i, j \in 1..Len(chain) : i < j => chain[i].index < chain[j].index

\* C1: the before-handle chain of a route declared directly on a controller is
\* exactly the controller's before-handle hooks of a smaller declaration index,
\* in declaration order; its after-handle and map-response chains are exactly
\* the hooks of that kind of a greater index.
C1_LocalChainByIndex ==
    \A h \in AllHandlers :
        DeclaredDirectly(h) =>
            /\ ChainOf("beforeHandle", h) =
                   SelectSeq(hookList[h.controller]["beforeHandle"],
                             LAMBDA k : k.index < h.index)
            /\ \A name \in {"afterHandle", "mapResponse"} :
                   ChainOf(name, h) =
                       SelectSeq(hookList[h.controller][name],
                                 LAMBDA k : k.index > h.index)
            /\ \A name \in RequestLifecycleHook :
                   /\ Increasing(ChainOf(name, h))
                   /\ \A i \in 1..Len(ChainOf(name, h)) :
                          ChainOf(name, h)[i].controller = h.controller

\* the example of the claim: [beforeHandle, route, beforeHandle, afterHandle]
C1_Witness ==
    \E h \in AllHandlers :
        /\ DeclaredDirectly(h)
        /\ Len(hookList[h.controller]["beforeHandle"]) = 2
        /\ Len(hookList[h.controller]["afterHandle"]) = 1
        /\ hookList[h.controller]["beforeHandle"][1].index < h.index
        /\ hookList[h.controller]["beforeHandle"][2].index > h.index
        /\ hookList[h.controller]["afterHandle"][1].index
               > hookList[h.controller]["beforeHandle"][2].index
        /\ ChainOf("beforeHandle", h) = <<hookList[h.controller]["beforeHandle"][1]>>
        /\ ChainOf("afterHandle", h) = <<hookList[h.controller]["afterHandle"][1]>>
\* the positions of chain that hold a hook declared by controller c
PositionsOf(chain, c) == {i \in 1..Len(chain) : chain[i].controller = c}

\* h is a route of B that reached the table of A through A.mount(.., B)
MountedRoute(h, a) ==
    /\ h \in TableHandlers(a)
    /\ h.env # <<>>
    /\ h.env[Len(h.env)].controller = a
    /\ h.env[Len(h.env)].propertyKey # "constructor"
    /\ h.controller # a

\* H: a before-handle hook the declaring controller declared before the route
OwnBeforeHooks(h) ==
    {k \in 1..Len(hookList[h.controller]["beforeHandle"]) :
        /\ hookList[h.controller]["beforeHandle"][k].index # NaN
        /\ h.index # NaN
        /\ hookList[h.controller]["beforeHandle"][k].index < h.index}

\* a run of the before-handle loop invokes the hook at position p of the chain
Invokes(run, hook) == \E i \in 1..Len(run) : run[i] = hook

FirstAt(run, hook) == CHOOSE i \in 1..Len(run) : run[i] = hook /\ \A j \in 1..(i - 1) : run[j] # hook

LastAt(chain, hook) ==
    CHOOSE i \in 1..Len(chain) : chain[i] = hook /\ \A j \in (i + 1)..Len(chain) : chain[j] # hook

UsedSegment(name, c) == Flat([i \in 1..Len(use[c]) |-> hookList[use[c][i]][name]])

\* the hooks a mount ancestor (a record of env) gives to an after-kind chain:
\* its own hooks declared after the mount, then the hooks of what it uses
AncestorAfter(name, e) ==
    SelectSeq(hookList[e.controller][name],
              LAMBDA k : k.index # NaN /\ e.index # NaN /\ k.index > e.index)
        \o UsedSegment(name, e.controller)

\* and to the before-handle chain: the hooks of what it uses, then its own
\* hooks declared before the mount
AncestorBefore(e) ==
    UsedSegment("beforeHandle", e.controller)
        \o SelectSeq(hookList[e.controller]["beforeHandle"],
                     LAMBDA k : k.index # NaN /\ e.index # NaN /\ k.index < e.index)

OwnAfter(name, h) ==
    SelectSeq(hookList[h.controller][name],
              LAMBDA k : k.index # NaN /\ h.index # NaN /\ k.index > h.index)

OwnBefore(h) ==
    SelectSeq(hookList[h.controller]["beforeHandle"],
              LAMBDA k : k.index # NaN /\ h.index # NaN /\ k.index < h.index)

\* C3: an after-kind chain is the declaring controller's local hooks, then the
\* hooks of the controllers it uses, then each mount ancestor's hooks from the
\* innermost mount (env[1]) outward; in the before-handle chain the hooks of
\* the used controllers come after the hooks of all mount ancestors (outermost
\* first) and before the local hooks.
C3_ChainOrder ==
    \A h \in AllHandlers :
        /\ \A name \in {"afterHandle", "mapResponse"} :
               ChainOf(name, h) =
                   OwnAfter(name, h)
                       \o UsedSegment(name, h.controller)
                       \o Flat([i \in 1..Len(h.env) |-> AncestorAfter(name, h.env[i])])
        /\ ChainOf("beforeHandle", h) =
               Flat([i \in 1..Len(h.env) |-> AncestorBefore(h.env[Len(h.env) + 1 - i])])
                   \o UsedSegment("beforeHandle", h.controller)
                   \o OwnBefore(h)

\* a mounted route whose after-handle chain has one local hook, one hook of a
\* used controller and one hook of the mounting controller, in that order
C3_Witness ==
    \E h \in AllHandlers :
        /\ Len(h.env) = 1
        /\ Len(use[h.controller]) = 1
        /\ LET chain == ChainOf("afterHandle", h) IN
           /\ Len(chain) = 3
           /\ chain[1].controller = h.controller
           /\ chain[2].controller = use[h.controller][1]
           /\ chain[3].controller = h.env[1].controller
           /\ Cardinality({chain[1].controller, chain[2].controller, chain[3].controller}) = 3

\* the same for the before-handle chain: mounting controller, used, local
C3_WitnessBefore ==
    \E h \in AllHandlers :
        /\ Len(h.env) = 1
        /\ Len(use[h.controller]) = 1
        /\ LET chain == ChainOf("beforeHandle", h) IN
           /\ Len(chain) = 3
           /\ chain[1].controller = h.env[1].controller
           /\ chain[2].controller = use[h.controller][1]
           /\ chain[3].controller = h.controller
           /\ Cardinality({chain[1].controller, chain[2].controller, chain[3].controller}) = 3

\* a route under two mounts, each ancestor with a hook: innermost first
C3_WitnessTwoMounts ==
    \E h \in AllHandlers :
        /\ Len(h.env) = 2
        /\ LET chain == ChainOf("afterHandle", h) IN
           /\ Len(chain) = 2
           /\ chain[1].controller = h.env[1].controller
           /\ chain[2].controller = h.env[2].controller
           /\ h.env[1].controller # h.env[2].controller

\* ------------------------------------------------------------------------
\* C4
\* ------------------------------------------------------------------------
Range(s) == {s[i] : i \in 1..Len(s)}

\* the Handler objects in the table of c (use-list controller)
P1TableHandlers(c) == Range(P1Values(c))

\* C4, for the use-list controller: after A.use(X) has returned, every hook
\* of X of every kind is in the effective chain of every route of A, the
\* routes registered on A after the use call included.
C4_UsedHooksOnEveryRoute ==
    \A a \in Controllers : \A x \in p1_used[a] :
        \A name \in HookType : \A k \in Range(p1_hookList[x][name]) :
            \A h \in P1TableHandlers(a) :
                k \in Range(P1Hooks(p1_heap[h].use, name))

\* The same statement for the index-based controller, whose chain is built
\* from #use at the time the handler is compiled: every hook of a used
\* controller is in the chain of every route declared by the using controller,
\* wherever the route is registered and whatever its index is.
C4_IndexController ==
    \A a \in Controllers : \A u \in 1..Len(use[a]) :
        \A name \in RequestLifecycleHook : \A k \in Range(hookList[use[a][u]][name]) :
            \A holder \in Controllers : \A h \in TableHandlers(holder) :
                h.controller = a => k \in Range(ChainOf(name, h))

\* a route of A registered after A.use(X), X having a hook
C4_IndexWitness ==
    /\ use["A"] = <<"X">>
    /\ \E name \in RequestLifecycleHook : hookList["X"][name] # <<>>
    /\ \E h \in TableHandlers("A") :
          /\ h.controller = "A"
          /\ h.index = NaN

\* ------------------------------------------------------------------------
\* Claims about the request pipeline
\* ------------------------------------------------------------------------
Done == pc.at = "done"

Calls == 1..Len(called)

\* the hook at place i of the chain of a kind was called for the request
WasCalled(kind, i) == \E j \in Calls : called[j].kind = kind /\ called[j].i = i

Threw(kind) == \E j \in Calls : called[j].kind = kind /\ called[j].out = "throw"

\* C5: once a before-handle hook has returned a defined value, neither the
\* route handler nor a later before-handle hook is called for the request
\* (all three compilers).
C5_BeforeHandleShortCircuit ==
    \A j \in Calls :
        (called[j].kind = "beforeHandle" /\ called[j].out = "value")
            => \A k \in (j + 1)..Len(called) :
                   called[k].kind \notin {"beforeHandle", "handler"}

\* a finished request whose first before-handle hook of two returned a value
C5_Witness ==
    /\ Done
    /\ build.compiler = "buildHandler"
    /\ ChainLen("beforeHandle") = 2
    /\ \E j \in Calls : called[j] = Call("beforeHandle", 1, "value")
    /\ result.kind = "return"

\* the same short circuit in routes and in compileHandler
C5_WitnessRoutes ==
    /\ Done
    /\ build.compiler = "routes"
    /\ ChainLen("beforeHandle") = 2
    /\ \E j \in Calls : called[j] = Call("beforeHandle", 1, "value")

C5_WitnessCompileHandler ==
    /\ Done
    /\ build.compiler = "compileHandler"
    /\ ChainLen("beforeHandle") = 2
    /\ \E j \in Calls : called[j] = Call("beforeHandle", 1, "value")

\* C6: once a before-request hook has returned a defined value, no further
\* before-request hook, no parse hook, no body parsing, no before-handle hook
\* and no route handler is called; the pipeline is at the map-response loop
\* with that value in ctx._response, and the response that is materialized
\* is made from that value unless a map-response hook replaces it or throws.
C6_RequestShortCircuit ==
    \A j \in Calls :
        (called[j].kind = "request" /\ called[j].out = "value") =>
            /\ \A k \in (j + 1)..Len(called) :
                   called[k].kind \notin
                       {"request", "parse", "parseBody", "beforeHandle", "handler"}
            /\ j = Len(called) =>
                   /\ pc.at \in {"mapResponse", "return", "finally", "afterResponse", "done"}
                   /\ pc.at \in {"mapResponse", "return"} =>
                          ctx.raw = ValueOf("request", called[j].i)
            /\ (Done /\ ~\E k \in Calls : called[k].kind = "mapResponse"
                                          /\ called[k].out # "undefined") =>
                   result = Return(newResponse(ValueOf("request", called[j].i), OK))

\* a finished request with a body parameter, parse and before-handle hooks,
\* whose first before-request hook of two returned the value of the response
C6_Witness ==
    /\ Done
    /\ build.bodyPresence
    /\ ChainLen("request") = 2
    /\ ChainLen("parse") > 0
    /\ ChainLen("beforeHandle") > 0
    /\ ChainLen("mapResponse") > 0
    /\ called[1] = Call("request", 1, "value")
    /\ result = Return(newResponse(ValueOf("request", 1), OK))

\* C7: every request that ends with a response has had every after-handle
\* hook of its chain called, whichever path produced the response.
C7_AfterHandleAlways ==
    (Done /\ result.kind = "return") =>
        \A i \in 1..ChainLen("afterHandle") : WasCalled("afterHandle", i)

\* what holds of routes and compileHandler, which run the after-handle hooks
\* in the finally block
C7_InFinally ==
    (Done /\ result.kind = "return" /\ build.compiler # "buildHandler") =>
        \A i \in 1..ChainLen("afterHandle") : WasCalled("afterHandle", i)

\* C8: no after-handle hook is called after a map-response hook, and a
\* map-response hook that returns a defined value is the last map-response
\* hook called.
C8_MapResponseLast ==
    \A j \in Calls : called[j].kind = "mapResponse" =>
        \A k \in (j + 1)..Len(called) :
            /\ called[k].kind # "afterHandle"
            /\ called[j].out = "value" => called[k].kind # "mapResponse"

\* what holds of buildHandler
C8_BuildHandler ==
    build.compiler = "buildHandler" => C8_MapResponseLast

\* C9: a request whose route handler returned undefined, no hook having
\* thrown, ends with a response of status 404.
C9_UndefinedIs404 ==
    (/\ Done
     /\ \E j \in Calls : called[j] = Call("handler", 0, "undefined")
     /\ \A j \in Calls : called[j].out # "throw")
        => /\ result.kind = "return"
           /\ result.response.status = NotFound

\* what holds of routes and compileHandler: the response is the 404 response
\* unless an after-handle hook returns a value, which then replaces it
C9_NotFoundUnlessReplaced ==
    (/\ Done
     /\ build.compiler # "buildHandler"
     /\ \E j \in Calls : called[j] = Call("handler", 0, "undefined")
     /\ \A j \in Calls : called[j].out = "undefined")
        => result = Return(newResponse(Null, NotFound))

\* C10: a request whose route handler threw has had every after-handle,
\* map-response and after-response hook of its chain called, and ends with
\* the error of the handler.
C10_FinalizationOnThrow ==
    (Done /\ Threw("handler")) =>
        /\ result = Throw("handler")
        /\ \A kind \in AfterHandleHook : \A i \in 1..ChainLen(kind) : WasCalled(kind, i)

\* what holds instead: after the handler has thrown no hook is called at all
C10_NoHookAfterThrow ==
    \A j \in Calls : (called[j].kind = "handler" /\ called[j].out = "throw")
        => j = Len(called)

\* ------------------------------------------------------------------------
\* Claims about parameter resolution
\* ------------------------------------------------------------------------
Resolutions == 1..Len(di_log)

\* C11: a SINGLETON type resolves to the same instance at every resolution of
\* every request; a REQUEST type resolves to the same instance at two
\* resolutions exactly when they belong to the same request; an INSTANCE type
\* resolves to a different instance at every resolution.
C11_Scopes ==
    \A i, j \in Resolutions :
        (i # j /\ di_log[i].type = di_log[j].type) =>
            CASE getScope(di_log[i].type) = "SINGLETON" ->
                     di_log[i].id = di_log[j].id
              [] getScope(di_log[i].type) = "REQUEST" ->
                     (di_log[i].id = di_log[j].id) <=>
                         (di_log[i].request = di_log[j].request)
              [] OTHER -> di_log[i].id # di_log[j].id

\* a SINGLETON type resolved in two requests, a REQUEST type resolved twice in
\* one request and once in another, an INSTANCE type resolved twice
C11_Witness ==
    \E i, j, k \in Resolutions :
        /\ getScope(di_log[i].type) = "REQUEST"
        /\ di_log[j].type = di_log[i].type /\ di_log[k].type = di_log[i].type
        /\ i # j
        /\ di_log[i].request = di_log[j].request
        /\ di_log[k].request # di_log[i].request
        /\ \E a, b \in Resolutions :
              /\ getScope(di_log[a].type) = "SINGLETON"
              /\ di_log[b].type = di_log[a].type
              /\ di_log[a].request # di_log[b].request
        /\ \E a, b \in Resolutions :
              /\ getScope(di_log[a].type) = "INSTANCE"
              /\ di_log[b].type = di_log[a].type
              /\ a # b

\* ------------------------------------------------------------------------
\* Streamed responses
\* ------------------------------------------------------------------------
\* the values a generator yields, in yield order (yield undefined gives none)
Yielded(gen) == SelectSeq(gen.yields, LAMBDA v : v # "undefined")

\* the stream was read to its end and the request was never cancelled
Drained == sm_pc = "finished" /\ sm_kind = "stream" /\ ~sm_aborted

\* C12: the body of the streamed response of a generator handler, drained
\* without cancellation, is the concatenation in yield order of every value
\* the generator yields, each exactly once, and the stream is then closed.
C12_BodyIsYields ==
    Drained => (sm_body = Yielded(sm_gen) /\ sm_closed)

\* C12, where it holds: onHandle of part_004 and of part_006 for every
\* generator, onHandle of compose.ts for a generator that does not return a
\* value right after its first yield
C12_BodyIsYieldsExceptSecondReturn ==
    (Drained /\ ~(Is0 /\ Len(sm_gen.yields) = 1 /\ sm_gen.ret # "undefined"))
        => (sm_body = Yielded(sm_gen) /\ sm_closed)

\* the generator of src/test.ts, cut to the chunks of the model, was drained
C12_Witness ==
    Drained /\ sm_gen.yields = <<"A", "B", "A">> /\ sm_body = <<"A", "B", "A">>

\* the places of the history after the abort listener has run
AfterAbort ==
    {i \in 1..Len(sm_events) :
        \E j \in 1..(i - 1) : sm_events[j].name = "abort"}

\* C13: once the cancellation signal has fired during a streaming response
\* the generator is not pulled again, no further chunk is added to the body,
\* and the generator is closed so that its cleanup runs.
C13_StopsOnAbort ==
    sm_end =>
        /\ \A i \in AfterAbort : sm_events[i].name \notin {"pull", "enqueue"}
        /\ sm_pc = "finished" => ~Suspended

\* C13, the part that holds in every iteration: no chunk is added to the
\* body after the signal has fired
C13_NoChunkAfterAbort ==
    sm_end => \A i \in AfterAbort : sm_events[i].name # "enqueue"

\* C13, the part that holds in part_004 and part_006: the generator is
\* pulled at most once more and is closed when start(controller) ends
C13_ClosedAfterOnePull ==
    (sm_end /\ Is4) =>
        /\ Cardinality({i \in AfterAbort : sm_events[i].name = "pull"}) <= 1
        /\ sm_pc = "finished" => ~Suspended

\* the signal fired while a stream was being written
C13_Witness ==
    sm_end /\ sm_pc = "finished" /\ sm_body # <<>>

\* ------------------------------------------------------------------------
\* After-response hooks (buildHandler)
\* ------------------------------------------------------------------------
HasAfterResponse ==
    build.compiler = "buildHandler" /\ ChainLen("afterResponse") > 0

\* the after-response hooks called so far came after the response was
\* returned, left it as it was, and did not make the request fail
AfterResponseHarmless ==
    (\E i \in 1..ChainLen("afterResponse") : WasCalled("afterResponse", i))
        => (result.kind = "return" /\ result.response = ctx.response)

\* C14: after-response hooks start only after the response has been
\* materialized, run for every request whose route has such hooks, cannot
\* change the response already produced, and a failure of one of them never
\* makes the request fail.
C14_AfterResponseEveryRequest ==
    HasAfterResponse =>
        /\ AfterResponseHarmless
        /\ Done => WasCalled("afterResponse", 1)

\* C14, what holds: the hooks run for every request that returned a
\* response; a request whose pipeline threw ends with a TypeError and none
\* of them called
C14_AfterResponseWhenReturned ==
    HasAfterResponse =>
        /\ AfterResponseHarmless
        /\ Done => IF result.kind = "return" THEN WasCalled("afterResponse", 1)
                   ELSE /\ result = Throw("TypeError")
                        /\ ~WasCalled("afterResponse", 1)

\* an after-response hook failed after the response was returned
C14_Witness ==
    HasAfterResponse /\ Done /\ Threw("afterResponse") /\ result.kind = "return"

\* ------------------------------------------------------------------------
\* The parse stage (buildHandler)
\* ------------------------------------------------------------------------
\* the types reached from a set of types through constructor parameters
RECURSIVE ReachableTypes(_, _)
ReachableTypes(S, n) ==
    IF n = 0 THEN S
    ELSE ReachableTypes(S \cup UNION {Range(getParamTypes(t)) : t \in S \cap Types},
                        n - 1)

\* a body parameter is declared, directly or through the constructor of an
\* injectable parameter
DeclaresBody(paramtypes) ==
    "body" \in ReachableTypes(Range(paramtypes), Cardinality(Types))

ParseCalls == {j \in Calls : called[j].kind = "parse"}

ParseValue == \E j \in ParseCalls : called[j].out = "value"

\* C15: the parse stage runs only when some handler or hook of the route
\* declares a body parameter, directly or through the constructor of an
\* injectable parameter; the parse hooks run in order until one returns a
\* non-undefined value, which becomes the parsed body; the external parser
\* is called if and only if no parse hook returned a non-undefined value.
C15_ParseStage ==
    build.compiler = "buildHandler" =>
        /\ (ParseCalls # {} \/ WasCalled("parseBody", 0))
               => DeclaresBody(build.paramtypes)
        /\ \A j \in ParseCalls :
               /\ called[j].i = Cardinality({k \in ParseCalls : k <= j})
               /\ \A k \in ParseCalls : k < j => called[k].out = "undefined"
               /\ called[j].out = "value" =>
                      /\ ctx.body = ValueOf("parse", called[j].i)
                      /\ ~WasCalled("parseBody", 0)
        /\ WasCalled("parseBody", 0) =>
               \A i \in 1..ChainLen("parse") :
                   \E j \in ParseCalls : called[j] = Call("parse", i, "undefined")
        /\ (pc.at \in {"beforeHandle", "handler", "afterHandle"} /\ ~ParseValue
              /\ DeclaresBody(build.paramtypes))
               => /\ WasCalled("parseBody", 0)
                  /\ ctx.body = ValueOf("parseBody", 0)

\* the body parameter is declared through the constructor of an injectable
\* parameter; the first parse hook returned undefined, the second a value
C15_Witness ==
    /\ build.compiler = "buildHandler"
    /\ build.paramtypes = <<"S2", "R2">>
    /\ Done
    /\ \E j \in Calls : called[j] = Call("parse", 1, "undefined")
    /\ \E j \in Calls : called[j] = Call("parse", 2, "value")
    /\ ctx.body = ValueOf("parse", 2)

\* the external parser made the body after every parse hook returned undefined
C15_WitnessParser ==
    /\ build.compiler = "buildHandler"
    /\ Done
    /\ ChainLen("parse") = 2
    /\ WasCalled("parseBody", 0)
    /\ ctx.body = ValueOf("parseBody", 0)

\* ------------------------------------------------------------------------
\* Concurrent requests
\* ------------------------------------------------------------------------
\* the objects that make the per-request state of request r: ctx._set and
\* its headers, ctx._body, ctx._store, the instances of ctx._instances
PerRequest(r) ==
    ({cc_fields[r].set, cc_fields[r].body, cc_fields[r].store}
        \cup (IF cc_fields[r].set = NoInstance THEN {}
              ELSE Range(di_heap[cc_fields[r].set].args))
        \cup {di_ctx[r].instances[type] : type \in Types})
    \ {NoInstance}

\* C16: two requests served concurrently, interleaved at any suspension
\* point, never share per-request state: the request-scoped instances, the
\* parsed body, the store and the accumulated status and headers of one are
\* objects the other neither holds, nor is handed, nor writes to, and the
\* response of a request is made of its own writes only.
C16_Isolation ==
    \A r1 \in Requests : \A r2 \in Requests \ {r1} :
        /\ PerRequest(r1) \cap PerRequest(r2) = {}
        /\ \A id \in PerRequest(r1) : di_heap[id].request = r1
        /\ \A w \in cc_writes : w[1] \in PerRequest(r1) => w[2] = r1
        /\ \A id \in 1..Len(di_heap) :
               di_heap[id].request # r1 =>
                   Range(di_heap[id].args) \cap PerRequest(r1) = {}
        /\ cc_response[r1] \subseteq {r1}

\* two requests in flight at once, each with a body, a store it wrote to and
\* a status it wrote; one of them with a request-scoped instance
C16_Witness ==
    /\ \A r \in Requests :
           /\ cc_pc[r] = "call"
           /\ cc_fields[r].body # NoInstance
           /\ cc_fields[r].store # NoInstance
           /\ <<cc_fields[r].store, r>> \in cc_writes
           /\ <<cc_fields[r].set, r>> \in cc_writes
    /\ \E r \in Requests : di_ctx[r].instances["R1"] # NoInstance

\* ------------------------------------------------------------------------
\* Route tables
\* ------------------------------------------------------------------------
\* path.replace(/^\/?/, '/')
Normalized(path) == ReplaceLeadingSlash(path, <<"/">>)

\* the table holds an entry for the path and the method; for a call without
\* a method, any entry at the path
Holds(table, path, method) ==
    /\ HasPath(table, path)
    /\ method # "" => /\ table[RowOf(table, path)].isMap
                      /\ HasMethod(table[RowOf(table, path)], method)

\* C17: route(path, {method}) raises an error whenever the table of the
\* receiver already holds an entry for the same normalized path and the same
\* method (without a method: any entry at that path), whatever calls came
\* before, and the entry that was there is not replaced.  Here for the
\* use-list controller of part_001, where route() goes through set().
C17_P1RouteDuplicate ==
    [][\A c \in TableControllers, in \in TableInputs :
          (/\ P1Route(c, in.path, in.method, Members[Len(p1_heap) + 1], "Function", NoInit)
           /\ Holds(p1_routes[c], Normalized(in.path), in.method))
              => (err' # "" /\ p1_routes'[c] = p1_routes[c])]_vars

\* C17 for the index-based controller (controller.ts, part_000): it holds
C17_RouteDuplicate ==
    [][\A c \in TableControllers, in \in TableInputs :
          (/\ Route(c, in.path, in.method, NextMember(c), "Function", "", NoInit)
           /\ Holds(routes[c], Normalized(in.path), in.method))
              => (err' # "" /\ routes'[c] = routes[c])]_vars

\* a route without a method was refused at a path that holds a method map,
\* on the index-based controller
C17_IndexWitness ==
    /\ err = "Route already exists for this path"
    /\ \E c \in TableControllers :
           /\ HasPath(routes[c], <<"/", "a">>)
           /\ routes[c][RowOf(routes[c], <<"/", "a">>)].isMap
           /\ Len(routes[c][RowOf(routes[c], <<"/", "a">>)].entries) = 2

\* the methods of a row that name a method: not the key of a route
\* registered without a method ("" in a single row, $ALL in a map)
NamedMethods(row) ==
    {row.entries[j].method : j \in 1..Len(row.entries)} \ {"", ALL}

CatchAll(row) ==
    \E j \in 1..Len(row.entries) : row.entries[j].method \in {"", ALL}

\* every path is there once and holds one method-less entry or a non-empty
\* map of method-keyed entries, never both
Exclusive(table) ==
    /\ \A i \in 1..Len(table) : \A k \in 1..Len(table) :
           table[i].path = table[k].path => i = k
    /\ \A i \in 1..Len(table) :
           /\ table[i].entries # <<>>
           /\ ~(CatchAll(table[i]) /\ NamedMethods(table[i]) # {})
           /\ CatchAll(table[i]) => Len(table[i].entries) = 1
           /\ \A j \in 1..Len(table[i].entries) : \A k \in 1..Len(table[i].entries) :
                  table[i].entries[j].method = table[i].entries[k].method => j = k

\* C18: after any sequence of route, mount and use calls, failed ones
\* included, every path of the route table of a controller holds either one
\* method-less entry or a non-empty map of method-keyed entries, never both.
\* Here for the use-list controller of part_001.
C18_P1Exclusive == \A c \in Controllers : Exclusive(p1_routes[c])

\* C18 for the index-based controller (controller.ts): it holds
C18_Exclusive == \A c \in Controllers : Exclusive(routes[c])

\* C18, the calls of the index-based controller: a route with a method at a
\* path that holds a method-less entry fails, and a route without a method
\* at a path that holds a method map fails
C18_MixedRouteFails ==
    [][\A c \in TableControllers, in \in TableInputs :
          (/\ Route(c, in.path, in.method, NextMember(c), "Function", "", NoInit)
           /\ HasPath(routes[c], Normalized(in.path))
           /\ routes[c][RowOf(routes[c], Normalized(in.path))].isMap = (in.method = ""))
              => (err' # "" /\ routes'[c] = routes[c])]_vars

\* a mount failed half way on the index-based controller: the table of A
\* holds a method map with two methods and a second path
C18_IndexWitness ==
    /\ err = "Route already exists for this method"
    /\ Len(routes["A"]) >= 1
    /\ \E i \in 1..Len(routes["A"]) : \E j \in 1..Len(routes["A"][i].entries) :
           routes["A"][i].entries[j].handler.env # <<>>

\* ------------------------------------------------------------------------
\* Composition with a controller that is not initialized
\* ------------------------------------------------------------------------
\* the call made in this step is use(router) or mount(path, router) on c
UseOrMount(c, router) ==
    \/ Use(c, router)
    \/ \E path \in MountPaths : Mount(c, path, "sub", router, NoInit)

\* C19: use(X) and mount(path, X) raise an error when X has not been
\* initialized, and the failed call leaves the route table, the hook lists,
\* the used-controller list and the declaration counter of the receiver
\* exactly as they were.
C19_DisabledRouterRefused ==
    [][\A c \in Controllers : \A router \in Below(c) :
          (UseOrMount(c, router) /\ ~opt[router].enabled)
              => /\ err' \in {"Cannot use a disabled controller",
                              "Cannot mount a disabled controller"}
                 /\ UNCHANGED <<routes, hookList, use, handlerIndex>>]_vars

\* use or mount of a controller that is not initialized was refused on a
\* receiver that has a hook, a route and a declaration counter above zero
C19_Witness ==
    /\ err \in {"Cannot use a disabled controller",
                "Cannot mount a disabled controller"}
    /\ \E c \in Controllers :
           /\ HookCount(c) > 0
           /\ routes[c] # <<>>
           /\ handlerIndex[c] > 0
           /\ \E router \in Below(c) : ~opt[router].enabled

\* C20: use or mount called on a controller that has not itself been
\* initialized raises a disabled-controller error.
C20_DisabledReceiverRefused ==
    [][\A c \in Controllers : \A router \in Below(c) :
          (UseOrMount(c, router) /\ ~opt[c].enabled)
              => err' \in {"Cannot use a disabled controller",
                           "Cannot mount a disabled controller"}]_vars

\* C20 for the use-list controller of part_001
C20_P1DisabledReceiverRefused ==
    [][\A c \in Controllers : \A router \in Below(c) :
          ((P1Use(c, router) \/ \E path \in MountPaths : P1Mount(c, path, "sub", router, NoInit))
             /\ ~p1_global[c].enabled)
              => err' = "Cannot use a disabled controller"]_vars

\* what holds instead: use and mount look at the router only; on a receiver
\* that is not initialized they succeed whenever the router is initialized
\* and its routes fit into the table
C20_OnlyRouterChecked ==
    [][\A c \in Controllers : \A router \in Below(c) :
          (UseOrMount(c, router) /\ ~opt[c].enabled /\ opt[router].enabled)
              => err' \in {"", "Route already exists for this path",
                           "Route already exists for this method"}]_vars

\* a controller that was never initialized uses an initialized one
C20_Witness ==
    \E c \in Controllers :
        /\ ~opt[c].enabled
        /\ use[c] # <<>>
        /\ err = ""
\* ------------------------------------------------------------------------
\* C21.  A controller becomes enabled on its first init call and stays
\* enabled: the first call returns and stores the prefix and the response
\* configuration it was given; every later init call throws and leaves them
\* as they are; no operation disables the controller again.
\* ------------------------------------------------------------------------
C21_InitOnce ==
    [][\A c \in Controllers :
          /\ opt[c].enabled => opt'[c].enabled
          /\ \A o \in InitOptions :
                ControllerInit(c, o) =>
                    IF opt[c].enabled
                    THEN err' = "Controller has been initialized" /\ opt'[c] = opt[c]
                    ELSE /\ err' = ""
                         /\ opt'[c] = [enabled |-> TRUE, prefix |-> o.prefix,
                                       init |-> o.init]]_vars

\* the same on the use-list controller
C21_P1InitOnce ==
    [][\A c \in Controllers :
          /\ p1_global[c].enabled => p1_global'[c].enabled
          /\ \A o \in InitOptions :
                P1Init(c, o) =>
                    IF p1_global[c].enabled
                    THEN /\ err' = "Controller has been initialized"
                         /\ p1_global'[c] = p1_global[c]
                    ELSE /\ err' = ""
                         /\ p1_global'[c] = [enabled |-> TRUE, prefix |-> o.prefix,
                                             init |-> o.init]]_vars

\* a later init call has thrown on an enabled controller that has a route,
\* while another controller was enabled with other options
C21_Witness ==
    /\ err = "Controller has been initialized"
    /\ opt["A"].enabled /\ opt["A"].init = Created /\ opt["A"].prefix = <<"q">>
    /\ opt["B"].enabled /\ opt["B"].init = NoInit
    /\ routes["A"] # <<>>

\* ------------------------------------------------------------------------
\* C22.  Every registration on a controller receives a declaration index
\* that is a number greater than every index the controller assigned before:
\* the indexes a controller has assigned (to its hooks, to its routes and, as
\* the index of the mount step, to every route copied in by mount or use) are
\* numbers, differ from one another and lie below the controller's counter.
\* ------------------------------------------------------------------------
\* the index the table's owner gave to a handler of its table: the handler's
\* own for a route it declared, the last record of env for a copied route
AssignedTo(handler) ==
    IF handler.env = <<>> THEN handler.index ELSE handler.env[Len(handler.env)].index

HookIndexes(c) ==
    UNION {{hookList[c][name][i].index : i \in 1..Len(hookList[c][name])} :
            name \in RequestLifecycleHook}

RouteIndexes(c) ==
    UNION {{AssignedTo(routes[c][i].entries[j].handler) :
                j \in 1..Len(routes[c][i].entries)} : i \in 1..Len(routes[c])}

AssignedBy(c) == HookIndexes(c) \cup RouteIndexes(c)

Registrations(c) == HookCount(c) + TableSize(routes[c], 1)

C22_IndexesIncrease ==
    \A c \in Controllers :
        /\ handlerIndex[c] # NaN
        /\ \A i \in AssignedBy(c) : i # NaN /\ i < handlerIndex[c]
        /\ Cardinality(AssignedBy(c)) = Registrations(c)

\* what holds: the indexes increase on a controller that has used no other
C22_IncreasingWithoutUse ==
    \A c \in Controllers :
        use[c] = <<>> =>
            /\ handlerIndex[c] = Registrations(c)
            /\ AssignedBy(c) = 0..(Registrations(c) - 1)

\* and after a use() every index the controller assigns is NaN
C22_NaNAfterUse ==
    [][\A c \in Controllers :
          use[c] # <<>> =>
              /\ handlerIndex'[c] = NaN
              /\ (Registrations(c)' > Registrations(c) => NaN \in AssignedBy(c)')]_vars

\* a hook and a copied route that were given NaN after a use()
C22_Witness ==
    /\ use["A"] # <<>>
    /\ NaN \in HookIndexes("A")
    /\ NaN \in RouteIndexes("A")

\* ------------------------------------------------------------------------
\* C23.  mount(path, S) copies routes of S into the receiver: every handler
\* the call adds to the receiver's table is a handler of S with its declaring
\* controller, property, index, type and own configuration as they are and
\* with one record (the receiver, the property and the configuration of the
\* mount) appended to its env; a mount that returns has added one copy for
\* every handler of S; the table of S and the hook lists stay as they are.
\* ------------------------------------------------------------------------
CopyOf(n, h, c, init) ==
    /\ n.env # <<>>
    /\ n = [h EXCEPT !.env = Append(@, [index |-> n.env[Len(n.env)].index,
                                        controller |-> c, propertyKey |-> "sub",
                                        init |-> init])]

C23_MountCopies ==
    [][\A c \in Controllers : \A router \in Below(c), path \in MountPaths,
                                  init \in {NoInit, Partial} :
          Mount(c, path, "sub", router, init) =>
              /\ routes'[router] = routes[router]
              /\ hookList' = hookList
              /\ TableHandlers(c) \subseteq TableHandlers(c)'
              /\ \A n \in TableHandlers(c)' \ TableHandlers(c) :
                    \E h \in TableHandlers(router) : CopyOf(n, h, c, init)
              /\ err' = "" =>
                    \A h \in TableHandlers(router) :
                        \E n \in TableHandlers(c)' \ TableHandlers(c) :
                            CopyOf(n, h, c, init)]_vars

\* A holds a route that X declared with a configuration of its own, copied
\* through B and then into A by two configured mounts, and A and B have hooks
C23_Witness ==
    /\ err = ""
    /\ HookCount("A") > 0 /\ HookCount("B") > 0
    /\ \E n \in TableHandlers("A") :
          /\ n.controller = "X" /\ n.init = Accepted
          /\ Len(n.env) = 2
          /\ n.env[1].controller = "B" /\ n.env[1].init = Partial
          /\ n.env[2].controller = "A" /\ n.env[2].init = NoInit
          /\ [n EXCEPT !.env = <<>>] \in TableHandlers("X")

\* ------------------------------------------------------------------------
\* C24.  The configuration compiled for a route takes each of status,
\* statusText and the header from the most specific scope that defines it:
\* the route's own configuration, then that of its declaring controller, then
\* that of each mount (the configuration given to the mount, then that of the
\* mounting controller) from the innermost to the outermost.
\* ------------------------------------------------------------------------
RECURSIVE FirstDefined(_, _, _)
\* the first value of the field in the chain that is not `none`
FirstDefined(chain, field, none) ==
    IF chain = <<>> THEN none
    ELSE IF Head(chain)[field] # none THEN Head(chain)[field]
    ELSE FirstDefined(Tail(chain), field, none)

MostSpecific(chain) ==
    [status |-> FirstDefined(chain, "status", NoStatus),
     statusText |-> FirstDefined(chain, "statusText", ""),
     header |-> FirstDefined(chain, "header", "")]

\* the scopes of a handler, the most specific first
Scopes(h) ==
    <<h.init, opt[h.controller].init>>
        \o Flat([i \in 1..Len(h.env) |-> <<h.env[i].init, opt[h.env[i].controller].init>>])

P1Scopes(h) ==
    <<h.init>>
        \o Flat([i \in 1..Len(h.use) |-> <<h.use[i].init, GlobalInit(h.use[i].controller)>>])

C24_MostSpecificWins ==
    \A c \in Controllers : \A h \in TableHandlers(c) :
        Meta(h).err = "" => Meta(h).init = MostSpecific(Scopes(h))

\* what Meta computes: the least specific scope that defines a field wins
C24_LeastSpecificWins ==
    \A c \in Controllers : \A h \in TableHandlers(c) :
        Meta(h).err = "" => Meta(h).init = MostSpecific(Reverse(Scopes(h)))

\* buildHandler of the use-list controller: the most specific scope wins, the
\* status is 200 when no scope defines one
C24_P1MostSpecificWins ==
    \A i \in 1..Len(p1_heap) :
        HandlerSet(p1_heap[i]) =
            MostSpecific(P1Scopes(p1_heap[i])
                            \o <<[status |-> 200, statusText |-> "", header |-> ""]>>)

\* a route with a status of its own in a controller that is configured with
\* another status, copied by two mounts
C24_Witness ==
    \E h \in TableHandlers("A") :
        /\ Meta(h).err = ""
        /\ h.init = Accepted /\ opt[h.controller].init = Created
        /\ Len(h.env) = 2
        /\ Meta(h).init.status = 201

C24_P1Witness ==
    \E i \in 1..Len(p1_heap) :
        /\ p1_heap[i].init = Accepted /\ GlobalInit(p1_heap[i].controller) = Created
        /\ Len(p1_heap[i].use) = 3
        /\ p1_heap[i].use[2].init = Partial
        /\ HandlerSet(p1_heap[i]) = [status |-> 202, statusText |-> "Created", header |-> "b"]

\* ------------------------------------------------------------------------
\* C25.  construct(T) throws a TypeError, and keeps no instance for T, when a
\* parameter of T's constructor is a request-data descriptor or a class that
\* is not registered as injectable: every call fails, the first one included,
\* and no object of class T is ever made.
\* ------------------------------------------------------------------------
BadConstructor(T) ==
    \E k \in 1..Len(getParamTypes(T)) : ~IsFunction(getParamTypes(T)[k])

C25_FailFast ==
    \A T \in Types :
        BadConstructor(T) =>
            /\ di_single[T] = NoInstance
            /\ \A o \in 1..Len(di_heap) : di_heap[o].type # T
            /\ \A i \in 1..Len(di_log) :
                  di_log[i].type = T => di_log[i].id = NoInstance
            /\ (di_log # <<>> /\ di_log[Len(di_log)].type = T) => err = "TypeError"

\* construct was called for the class with a request-data parameter after
\* its first parameter was made, and for the class with an unregistered one
C25_Witness ==
    /\ \E i \in 1..Len(di_log) : di_log[i].type = "S4"
    /\ di_log[Len(di_log)].type = "S3"
    /\ di_single["S1"] # NoInstance
    /\ err = "TypeError"

\* ------------------------------------------------------------------------
\* C26.  Resolving a REQUEST-scoped class when there is no request context
\* behaves like INSTANCE scope: every construct call for it returns an
\* instance, and a different one at each call.
\* ------------------------------------------------------------------------
OutsideRequest(T) == {i \in 1..Len(di_log) : di_log[i].type = T /\ di_log[i].request = 0}

C26_RequestLikeInstance ==
    \A T \in Types :
        getScope(T) = "REQUEST" =>
            \A i, j \in OutsideRequest(T) :
                /\ di_log[i].id # NoInstance
                /\ i # j => di_log[i].id # di_log[j].id

\* what construct does: outside of a request only a SINGLETON class is ever
\* constructed; for a REQUEST or INSTANCE class every call throws a TypeError
C26_OnlySingletons ==
    \A T \in Types :
        getScope(T) # "SINGLETON" =>
            /\ \A i \in OutsideRequest(T) : di_log[i].id = NoInstance
            /\ \A o \in 1..Len(di_heap) : di_heap[o].type # T
            /\ (di_log # <<>> /\ di_log[Len(di_log)].type = T) => err = "TypeError"

\* construct was called twice for a REQUEST-scoped class
C26_Witness ==
    /\ Cardinality(OutsideRequest("R1")) = 2
    /\ di_log[Len(di_log)].type = "R1"

\* ------------------------------------------------------------------------
\* C27.  A request whose body could not be parsed (parseBody threw, for
\* example on an unsupported content type) ends with a response: the request
\* function returns, it does not throw.
\* ------------------------------------------------------------------------
C27_ParseFailureAnswered ==
    (Done /\ Threw("parseBody")) => result.kind = "return"

\* what buildHandler and routes do: the error of parseBody leaves the request
\* function (as a TypeError of the finally block where buildHandler has
\* after-response hooks to schedule), no response is made, and neither the
\* route handler nor a hook is called after it
C27_ParseFailureThrown ==
    \A j \in Calls :
        (called[j].kind = "parseBody" /\ called[j].out = "throw") =>
            /\ j = Len(called)
            /\ Done => /\ result.kind = "throw"
                       /\ result.response = NoResponse
                       /\ result.error \in {"parseBody", "TypeError"}
                       /\ result.error = "TypeError" =>
                              (build.compiler = "buildHandler" /\ ChainLen("afterResponse") > 0)

\* a request of buildHandler, and one of routes, ended after parseBody threw
C27_Witness ==
    /\ Done
    /\ build.compiler = "buildHandler"
    /\ called # <<>>
    /\ called[Len(called)] = Call("parseBody", 0, "throw")

C27_RoutesWitness ==
    /\ Done
    /\ build.compiler = "routes"
    /\ called = <<Call("parseBody", 0, "throw")>>

\* ------------------------------------------------------------------------
\* C28.  The scope of a type is fixed by its first registerInjectable call:
\* the first call for a class records the scope it is given; a later call for
\* the same class raises the error "already registered as injectable" and
\* getScope keeps returning the scope of the first call.
\* ------------------------------------------------------------------------
AlreadyRegistered == "Constructor is already registered as injectable"

C28_FirstCallFixes ==
    [][\A T \in Constructors :
          /\ getScope(T) # "undefined" => getScope(T)' = getScope(T)
          /\ \A scope \in Scopes3 :
                registerInjectable(T, scope) =>
                    IF getScope(T) = "undefined"
                    THEN err' = "" /\ getScope(T)' = scope
                    ELSE err' = AlreadyRegistered /\ getScope(T)' = getScope(T)]_vars

\* registerInjectable was called for R1, registered as SINGLETON and the only
\* registered class, and raised the error
C28_Witness ==
    /\ err = AlreadyRegistered
    /\ getScope("R1") = "SINGLETON"
    /\ \A T \in Constructors \ {"R1"} : getScope(T) = "undefined"

\* ------------------------------------------------------------------------
\* C29.  newResponse makes of a string a text body; of a Response a response
\* with the same body, the headers of the Response overridden by those of
\* the init, and the status of the init where it has one and the status of
\* the Response otherwise; of any other structured value a JSON body.  A
\* plain object returned on a route of buildHandler with no status
\* configured gives a JSON response of status 200.
\* ------------------------------------------------------------------------
C29_Materialization ==
    made # NotMade =>
        LET data == made.data
            init == made.init
            response == made.response
        IN  /\ data.type = "string" => response.body = Body("text", data.value)
            /\ data.type = "Response" =>
                  /\ response.body = data.body
                  /\ \A name \in HeaderNames :
                        response.headers[name] =
                            IF init.headers[name] # "" THEN init.headers[name]
                            ELSE data.headers[name]
                  /\ response.status =
                        IF init.status # NoStatus THEN init.status ELSE data.status
            /\ data.type \in {"object", "number"} =>
                  response.body = Body("json", data.value)
            /\ (/\ made.by = "buildHandler"
                /\ data.type = "object"
                /\ made.set.status = NoStatus) =>
                  /\ response.body = Body("json", data.value)
                  /\ response.status = OK
                  /\ \A name \in HeaderNames \ {"content-type"} :
                        response.headers[name] = made.set.headers[name]

\* in buildHandler the init always has a status, 200 where none was
\* configured: a Response that a handler returns never keeps its own status
C29_RawStatusOfBuildHandler ==
    (made.by = "buildHandler" /\ made.data.type = "Response") =>
        made.response.status =
            IF made.set.status # NoStatus THEN made.set.status ELSE OK

\* a Response with a header of its own and one the init overrides, its own
\* status kept
C29_Witness ==
    /\ made.by = "newResponse"
    /\ made.data.type = "Response"
    /\ made.data.headers = [NoHeaders EXCEPT !["content-type"] = "own", !["x-a"] = "own"]
    /\ made.init.headers = [NoHeaders EXCEPT !["x-a"] = "set"]
    /\ made.init.status = NoStatus
    /\ made.response.status = NotFound
    /\ made.response.headers = [NoHeaders EXCEPT !["content-type"] = "own", !["x-a"] = "set"]

\* a plain object returned on a route of buildHandler with no status
C29_ObjectWitness ==
    /\ made.by = "buildHandler"
    /\ made.data.type = "object"
    /\ made.set.status = NoStatus
    /\ made.response.status = OK
    /\ made.response.body.encoding = "json"

\* a Response of status 404 returned on a route of buildHandler with no
\* status: the response has status 200
C29_RawWitness ==
    /\ made.by = "buildHandler"
    /\ made.data.type = "Response"
    /\ made.data.status = NotFound
    /\ made.set.status = NoStatus
    /\ made.response.status = OK

\* ------------------------------------------------------------------------
\* C30.  For a route reached through a mount, a hook declared on the
\* mounting controller is in the route's chain exactly when its declaration
\* index compares with the index of that mount step (before-handle: hook
\* index < mount index; after-handle and map-response: hook index > mount
\* index), whatever the index of the route inside the mounted controller.
\* ------------------------------------------------------------------------
\* the record at place i of the env of h is a mount step of a controller that
\* gives its hooks to the chain of h through this step only: it is not the
\* declaring controller, no other step is of it, and nothing on the way uses it
ThroughMountOnly(h, i) ==
    LET a == h.env[i].controller IN
    /\ h.env[i].propertyKey # "constructor"
    /\ a # h.controller
    /\ \A j \in 1..Len(h.env) : j # i => h.env[j].controller # a
    /\ a \notin Range(use[h.controller])
    /\ \A j \in 1..Len(h.env) : a \notin Range(use[h.env[j].controller])

C30_MountIndexFilters ==
    \A h \in AllHandlers : \A i \in 1..Len(h.env) :
        ThroughMountOnly(h, i) =>
            LET e == h.env[i] IN
            /\ \A k \in Range(hookList[e.controller]["beforeHandle"]) :
                   k \in Range(ChainOf("beforeHandle", h))
                       <=> IndexLess(k.index, e.index)
            /\ \A name \in {"afterHandle", "mapResponse"} :
                   \A k \in Range(hookList[e.controller][name]) :
                       k \in Range(ChainOf(name, h))
                           <=> IndexGreater(k.index, e.index)

\* a before-handle hook of the mounting controller declared before the mount
\* is in the chain of a mounted route although its index is not smaller than
\* the route's own
C30_Witness ==
    \E h \in AllHandlers : \E i \in 1..Len(h.env) :
        /\ ThroughMountOnly(h, i)
        /\ \E k \in Range(hookList[h.env[i].controller]["beforeHandle"]) :
               /\ IndexLess(k.index, h.env[i].index)
               /\ ~IndexLess(k.index, h.index)
               /\ k \in Range(ChainOf("beforeHandle", h))

\* an after-handle hook of the mounting controller declared after the mount
\* is in the chain of a mounted route although its index is not greater than
\* the route's own
C30_AfterWitness ==
    \E h \in AllHandlers : \E i \in 1..Len(h.env) :
        /\ ThroughMountOnly(h, i)
        /\ \E k \in Range(hookList[h.env[i].controller]["afterHandle"]) :
               /\ IndexGreater(k.index, h.env[i].index)
               /\ ~IndexGreater(k.index, h.index)
               /\ k \in Range(ChainOf("afterHandle", h))

\* a before-handle hook declared after the mount is not in the chain
C30_ExcludedWitness ==
    \E h \in AllHandlers : \E i \in 1..Len(h.env) :
        /\ ThroughMountOnly(h, i)
        /\ \E k \in Range(hookList[h.env[i].controller]["beforeHandle"]) :
               /\ IndexGreater(k.index, h.env[i].index)
               /\ k \notin Range(ChainOf("beforeHandle", h))

\* a mount step made after use() has the index NaN: no local hook of the
\* mounting controller is in the chain of the mounted route
C30_NaNWitness ==
    \E h \in AllHandlers : \E i \in 1..Len(h.env) :
        /\ ThroughMountOnly(h, i)
        /\ h.env[i].index = NaN
        /\ hookList[h.env[i].controller]["beforeHandle"] # <<>>
        /\ \A k \in Range(hookList[h.env[i].controller]["beforeHandle"]) :
               k \notin Range(ChainOf("beforeHandle", h))

\* ------------------------------------------------------------------------
\* C31.  After A.use(X), the hook list of A of each kind is the list A had
\* followed by the hook entries of X of that kind.
\* ------------------------------------------------------------------------
C31_UseAppendsHooks ==
    [][\A a \in Controllers : \A x \in Below(a) :
          (P1Use(a, x) /\ p1_global[x].enabled) =>
              \A name \in HookType :
                  p1_hookList'[a][name] = p1_hookList[a][name] \o p1_hookList[x][name]]_vars

\* what use() of the use-list controller does: it walks the hook lists of A
\* itself and pushes each onto itself, so that every entry of A is there
\* twice and no entry of X is added
C31_UseDoublesOwnHooks ==
    [][\A a \in Controllers : \A x \in Below(a) :
          (P1Use(a, x) /\ p1_global[x].enabled) =>
              \A name \in HookType :
                  /\ p1_hookList'[a][name] = p1_hookList[a][name] \o p1_hookList[a][name]
                  /\ p1_hookList'[x][name] = p1_hookList[x][name]]_vars

\* A, with one hook of its own, has used X, which has a hook: the list of A
\* holds its own hook twice and not the hook of X
C31_Witness ==
    \E a \in Controllers : \E x \in p1_used[a] : \E name \in HookType :
        /\ p1_hookList[x][name] # <<>>
        /\ Len(p1_hookList[a][name]) = 2
        /\ p1_hookList[a][name][1] = p1_hookList[a][name][2]
        /\ p1_hookList[a][name][1].controller = a

\* ------------------------------------------------------------------------
\* C32.  The calls of one request of buildHandler are made in the order of
\* the stages before-request, parse (the parse hooks, then parseBody),
\* before-handle, handler, after-handle, map-response, and the after-response
\* hooks only once the response has been made; within a stage hook k + 1 is
\* called only after hook k has completed, one call at a time.
\* ------------------------------------------------------------------------
CallKinds == HookType \cup {"parseBody", "handler"}

StageOf(kind) ==
    CASE kind = "request" -> 1
      [] kind = "parse" -> 2
      [] kind = "parseBody" -> 3
      [] kind = "beforeHandle" -> 4
      [] kind = "handler" -> 5
      [] kind = "afterHandle" -> 6
      [] kind = "mapResponse" -> 7
      [] kind = "afterResponse" -> 8

C32_StagesInOrder ==
    build.compiler = "buildHandler" =>
        /\ \A j, k \in Calls : j < k =>
              /\ StageOf(called[j].kind) <= StageOf(called[k].kind)
              /\ called[j].kind = called[k].kind => called[j].i < called[k].i
        /\ \A j \in Calls :
              /\ called[j].i > 1 =>
                    (j > 1 /\ called[j - 1] = Call(called[j].kind, called[j].i - 1, called[j - 1].out))
              /\ called[j].kind = "afterResponse" => result.kind = "return"

\* a step of a request makes at most one call, after the calls made so far
C32_OneCallAtATime ==
    [][build.compiler = "buildHandler" =>
          \/ called' = called
          \/ \E kind \in CallKinds, i \in 0..MaxChain, out \in Outcomes :
                called' = Append(called, Call(kind, i, out))]_vars

\* a request that went through every stage, two hooks in one of them
C32_Witness ==
    /\ build.compiler = "buildHandler"
    /\ Done
    /\ \A kind \in CallKinds :
           \E j \in Calls : called[j].kind = kind
    /\ \E j \in Calls : called[j].i = 2

\* ------------------------------------------------------------------------
\* C33.  assignHeaders merges field by field: a name that only one side has
\* keeps the value(s) of that side; for a name both sides have, an incoming
\* array gives the existing value(s) followed by the incoming ones and an
\* incoming string replaces the existing value; no value is in the merged
\* map that neither side supplied.
\* ------------------------------------------------------------------------
MergedAsClaimed(name) ==
    LET own == made.headers[name]
        incoming == made.init[name]
        merged == made.merged[name]
    IN  /\ incoming = Absent => merged = own
        /\ (incoming # Absent /\ own = <<>>) => merged = incoming.values
        /\ (incoming # Absent /\ own # <<>>) =>
               merged = IF incoming.array THEN own \o incoming.values
                        ELSE incoming.values
        /\ Range(merged) \subseteq Range(own) \cup Range(incoming.values)

C33_FieldByField ==
    made # NotMade => \A name \in HeaderNames : MergedAsClaimed(name)

\* assignHeaders of part_008 merges as claimed
C33_Part008 ==
    made.by = "part_008" => \A name \in HeaderNames : MergedAsClaimed(name)

\* assignHeaders of part_000 merges as claimed except for an incoming array
\* under a name the accumulated record does not have: the merged array then
\* begins with undefined
C33_Part000 ==
    made.by = "part_000" =>
        \A name \in HeaderNames :
            IF made.init[name].array /\ made.headers[name] = <<>>
                  /\ made.merged[name] # made.init[name].values
            THEN made.merged[name] = <<"undefined">> \o made.init[name].values
            ELSE MergedAsClaimed(name)

\* an incoming array under a name the accumulated record does not have
C33_Witness ==
    /\ made.by = "part_000"
    /\ made.headers["x-a"] = <<>>
    /\ made.init["x-a"] = Array(<<"set">>)
    /\ made.merged["x-a"] = <<"undefined", "set">>

\* ------------------------------------------------------------------------
\* C34.  mapParams gives exactly one argument for each parameter type, in
\* the order of the types, to a handler or hook and to the constructor of an
\* injectable class, also when an injectable type is followed by further
\* parameters.
\* ------------------------------------------------------------------------
\* the arguments are those of the parameter types, one for one: an instance
\* of the class for a class, a field of the request for a descriptor
ArgumentsOf(heap, paramtypes, args) ==
    /\ Len(args) = Len(paramtypes)
    /\ \A k \in 1..Len(paramtypes) :
           IF IsFunction(paramtypes[k])
           THEN args[k] \in 1..Len(heap) /\ heap[args[k]].type = paramtypes[k]
           ELSE args[k] = LeafValue

\* what a call of mapParams for request r gives in the present state
ResolutionOf(r, paramtypes) ==
    mapParams(di_version,
              [single |-> di_single, instances |-> di_ctx[r].instances,
               heap |-> di_heap, log |-> di_log],
              r, paramtypes)

C34_OneArgumentEach ==
    /\ \A o \in 1..Len(di_heap) :
           ArgumentsOf(di_heap, getParamTypes(di_heap[o].type), di_heap[o].args)
    /\ \A r \in Requests, paramtypes \in ParamLists :
           \A res \in {ResolutionOf(r, paramtypes)} :
               res.err = "" => ArgumentsOf(res.st.heap, paramtypes, res.args)

\* the loop of part_005 (and of part_006, whose generator goes on with
\* continue after an injectable type) gives one argument for each type
C34_Part005 ==
    di_version = "part_005" => C34_OneArgumentEach

\* the generator of part_004 returns after the first injectable type: the
\* arguments are those of the types up to and including it
C34_Part004Truncates ==
    di_version = "part_004" =>
        /\ \A o \in 1..Len(di_heap) :
               getScope(di_heap[o].type) # "SINGLETON" =>
                   LET types == getParamTypes(di_heap[o].type)
                       upto == IF FirstFunction(types) > Len(types) THEN Len(types)
                               ELSE FirstFunction(types)
                   IN  ArgumentsOf(di_heap, SubSeq(types, 1, upto), di_heap[o].args)
        /\ \A r \in Requests, paramtypes \in ParamLists :
               \A res \in {ResolutionOf(r, paramtypes)} :
                   res.err = "" =>
                       ArgumentsOf(res.st.heap,
                                   SubSeq(paramtypes, 1,
                                          IF FirstFunction(paramtypes) > Len(paramtypes)
                                          THEN Len(paramtypes)
                                          ELSE FirstFunction(paramtypes)),
                                   res.args)

\* an R1, whose constructor takes an S2 and an I1, was constructed with the
\* S2 alone
C34_Witness ==
    /\ di_version = "part_004"
    /\ \E o \in 1..Len(di_heap) :
          /\ di_heap[o].type = "R1"
          /\ Len(di_heap[o].args) = 1
          /\ di_heap[di_heap[o].args[1]].type = "S2"

\* ------------------------------------------------------------------------
\* C35.  No hook entry occurs more than once in the chain of a kind of a
\* route, whatever route, hook, mount and use calls built the composition.
\* ------------------------------------------------------------------------
Occurrences(chain, hook) == Cardinality({i \in 1..Len(chain) : chain[i] = hook})

C35_NoHookTwice ==
    \A h \in AllHandlers : \A name \in RequestLifecycleHook :
        \A i \in 1..Len(ChainOf(name, h)) :
            Occurrences(ChainOf(name, h), ChainOf(name, h)[i]) = 1

\* what holds: where no controller uses another, no chain holds a hook
\* twice; a hook that is there twice is a hook of a used controller
C35_TwiceOnlyWithUse ==
    \A h \in AllHandlers : \A name \in RequestLifecycleHook :
        \A i \in 1..Len(ChainOf(name, h)) :
            Occurrences(ChainOf(name, h), ChainOf(name, h)[i]) > 1 =>
                \E c \in Controllers :
                    ChainOf(name, h)[i].controller \in Range(use[c])

\* X declares a before-handle hook and then a route; A uses X: the chain of
\* the route in the table of A holds the hook of X twice
C35_Witness ==
    \E h \in TableHandlers("A") :
        /\ h.controller = "X"
        /\ use["A"] = <<"X">>
        /\ Len(hookList["X"]["beforeHandle"]) = 1
        /\ hookList["X"]["beforeHandle"][1].index # NaN
        /\ ChainOf("beforeHandle", h) =
               <<hookList["X"]["beforeHandle"][1], hookList["X"]["beforeHandle"][1]>>

\* ------------------------------------------------------------------------
\* C36.  A mount or use call that fails because a copied route collides with
\* a route of the receiver leaves the receiver as it was: no route of the
\* sub-controller is added, and the declaration counter and the list of used
\* controllers are unchanged.
\* ------------------------------------------------------------------------
Collides(error) ==
    error \in {"Route already exists for this path",
               "Route already exists for this method"}

C36_FailedCallChangesNothing ==
    [][\A router \in Below("A"), path \in MountPaths :
          ((Mount("A", path, "sub", router, NoInit) \/ Use("A", router))
              /\ Collides(err')) =>
                  /\ routes'["A"] = routes["A"]
                  /\ handlerIndex'["A"] = handlerIndex["A"]
                  /\ use'["A"] = use["A"]]_vars

\* the same for the use-list controller
C36_P1FailedCallChangesNothing ==
    [][\A router \in Below("A"), path \in MountPaths :
          ((P1Mount("A", path, "sub", router, NoInit) \/ P1Use("A", router))
              /\ Collides(err')) =>
                  /\ p1_routes'["A"] = p1_routes["A"]
                  /\ p1_hookList'["A"] = p1_hookList["A"]
                  /\ p1_heap' = p1_heap]_vars

\* what holds: a use call that fails on a collision has put the router on
\* the list of used controllers and made the counter NaN all the same; a
\* mount call that fails leaves the list alone; both keep the routes copied
\* before the collision
C36_FailedUseIsRecorded ==
    [][\A router \in Below("A"), path \in MountPaths :
          /\ (Use("A", router) /\ Collides(err')) =>
                 /\ use'["A"] = Append(use["A"], router)
                 /\ handlerIndex'["A"] = NaN
                 /\ TableSize(routes'["A"], 1) >= TableSize(routes["A"], 1)
          /\ (Mount("A", path, "sub", router, NoInit) /\ Collides(err')) =>
                 /\ use'["A"] = use["A"]
                 /\ TableSize(routes'["A"], 1) >= TableSize(routes["A"], 1)]_vars

\* A.use(B) failed on a collision after it had copied a route of B: B is on
\* the list, the counter is NaN, and the table of A holds one of the two
\* routes of B
C36_Witness ==
    /\ Collides(err)
    /\ use["A"] = <<"B">>
    /\ handlerIndex["A"] = NaN
    /\ TableSize(routes["B"], 1) = 2
    /\ Cardinality({h \in TableHandlers("A") : h.controller = "B"}) = 1
    /\ Cardinality({h \in TableHandlers("A") : h.controller = "A"}) = 1

\* ------------------------------------------------------------------------
\* C37.  A.use(X) changes only A: the route entries (their ancestor chains
\* included), the hook lists and the response configuration of X and of
\* every controller that A used before are after the call what they were
\* before it.
\* ------------------------------------------------------------------------
C37_UseChangesOnlyReceiver ==
    [][\A a \in Controllers : \A x \in Below(a) :
          Use0(a, x) =>
              \A c \in ({x} \cup Range(use[a])) \ {a} :
                  /\ routes'[c] = routes[c]
                  /\ hookList'[c] = hookList[c]
                  /\ opt'[c] = opt[c]]_vars

\* the route entries of a controller of the use-list kind: the Handler
\* objects its table points to, as they are
P1RouteEntries(c) ==
    [i \in 1..Len(P1Entries(c)) |->
        [path |-> P1Entries(c)[i].path, method |-> P1Entries(c)[i].method,
         handler |-> p1_heap[P1Entries(c)[i].handler]]]

\* the same for the use-list controller
C37_P1UseChangesOnlyReceiver ==
    [][\A a \in Controllers : \A x \in Below(a) :
          P1Use(a, x) =>
              \A c \in ({x} \cup p1_used[a]) \ {a} :
                  /\ P1RouteEntries(c)' = P1RouteEntries(c)
                  /\ p1_hookList'[c] = p1_hookList[c]
                  /\ p1_global'[c] = p1_global[c]]_vars

\* what holds of use() of part_000: the routes and hook lists of the other
\* controllers and the configuration of X stay; the configuration of each
\* controller A used before takes the fields of that of X
C37_UseMergesIntoUsed ==
    [][\A a \in Controllers : \A x \in Below(a) :
          (Use0(a, x) /\ opt[x].enabled) =>
              /\ \A c \in Controllers \ {a} :
                    /\ routes'[c] = routes[c]
                    /\ hookList'[c] = hookList[c]
                    /\ handlerIndex'[c] = handlerIndex[c]
                    /\ use'[c] = use[c]
              /\ x \notin Range(use[a]) => opt'[x] = opt[x]
              /\ \A c \in Range(use[a]) :
                    opt'[c] = [opt[c] EXCEPT !.init = Spread(@, opt[x].init)]]_vars

\* A used B and then X: B, whose own configuration is none or Accepted, has
\* the configuration Created of X
C37_Witness ==
    /\ use["A"] = <<"B", "X">>
    /\ opt["X"].init = Created
    /\ opt["B"].init = Created

\* ------------------------------------------------------------------------
\* C38.  When an after-handle hook returns a defined value and so replaces
\* the response, the status accumulated for the request before it (the 404
\* of a route whose handler returned undefined) is still the status of the
\* final response (routes and compileHandler).
\* ------------------------------------------------------------------------
\* the request got its 404 response and an after-handle hook replaced it
ReplacedNotFound ==
    /\ Done
    /\ build.compiler # "buildHandler"
    /\ result.kind = "return"
    /\ \E j \in Calls : called[j] = Call("handler", 0, "undefined")
    /\ \E j \in Calls : called[j].kind = "afterHandle" /\ called[j].out = "value"

C38_StatusSurvivesReplacement ==
    ReplacedNotFound => result.response.status = NotFound

\* what holds: the finally block starts the after-handle hooks on a new
\* ctx._set = { headers: {} }, so that the response made of the value of the
\* hook has the status 200 and the 404 is gone
C38_StatusResetBeforeAfterHandle ==
    ReplacedNotFound =>
        /\ result.response.status = OK
        /\ \E j \in Calls :
              /\ called[j].kind = "afterHandle"
              /\ called[j].out = "value"
              /\ result.response.body = ValueOf("afterHandle", called[j].i)

\* such a request of routes, and one of compileHandler
C38_Witness ==
    /\ ReplacedNotFound
    /\ build.compiler = "routes"
    /\ result.response = newResponse(ValueOf("afterHandle", 1), NoStatus)

C38_CompileHandlerWitness ==
    /\ ReplacedNotFound
    /\ build.compiler = "compileHandler"
    /\ result.response = newResponse(ValueOf("afterHandle", 1), NoStatus)

CyclicSingletons ==
    /\ construction.paramtypes = [class \in Classes |->
                                      IF class = "A" THEN <<"B">> ELSE <<"A">>]
    /\ construction.scope = [class \in Classes |-> "SINGLETON"]

C39_ReturnedWitness ==
    /\ construction.status = "returned"
    /\ construction.paramtypes["A"] = <<"B", "B">>
    /\ construction.map = [class \in Classes |-> 1]

\* on the cycle nothing but the full stack ends the call: it never returns
\* and no instance is ever made
C39_CycleEndsByOverflowOnly ==
    CyclicSingletons =>
        /\ construction.status # "returned"
        /\ construction.error # "TypeError"
        /\ construction.map = [class \in Classes |-> NoInstance]

====
